---- MODULE Spec2Model ----
(***************************************************************************)
(* antipattern-db: the build-time shard/index generator (DataSplitter,     *)
(* IndexGenerator, AntipatternBuilder) and the runtime QueryEngine over a  *)
(* NodeDataLoader, as a state machine.                                     *)
(*                                                                         *)
(* JavaScript values are tagged records: [t |-> "number", v |-> 3],        *)
(* [t |-> "string", v |-> <<"a","b">>] (a string is the sequence of its    *)
(* characters), [t |-> "array", v |-> <<...>>], [t |-> "object", v |->     *)
(* <<<<key, value>>, ...>>] (own properties in insertion order),           *)
(* [t |-> "null"], [t |-> "undefined"].                                    *)
(***************************************************************************)
EXTENDS Integers, Sequences, FiniteSets, TLC

\* ------------------------------------------------------------------------
\* Bounds of the model

MaxRecords == 3

\* ------------------------------------------------------------------------
\* Characters and strings

CharCode ==
  (" " :> 32) @@ ("!" :> 33) @@ ("," :> 44) @@ ("-" :> 45) @@ ("." :> 46) @@
  ("/" :> 47) @@
  ("0" :> 48) @@ ("1" :> 49) @@ ("2" :> 50) @@ ("3" :> 51) @@ ("4" :> 52) @@
  ("5" :> 53) @@ ("6" :> 54) @@ ("7" :> 55) @@ ("8" :> 56) @@ ("9" :> 57) @@
  ("O" :> 79) @@ ("[" :> 91) @@ ("]" :> 93) @@ ("_" :> 95) @@
  ("a" :> 97) @@ ("b" :> 98) @@ ("c" :> 99) @@ ("d" :> 100) @@ ("e" :> 101) @@
  ("f" :> 102) @@ ("g" :> 103) @@ ("h" :> 104) @@ ("i" :> 105) @@
  ("j" :> 106) @@ ("k" :> 107) @@ ("l" :> 108) @@ ("m" :> 109) @@
  ("n" :> 110) @@ ("o" :> 111) @@ ("p" :> 112) @@ ("q" :> 113) @@
  ("r" :> 114) @@ ("s" :> 115) @@ ("t" :> 116) @@ ("u" :> 117) @@
  ("v" :> 118) @@ ("w" :> 119) @@ ("x" :> 120) @@ ("y" :> 121) @@
  ("z" :> 122)

Digits == <<"0", "1", "2", "3", "4", "5", "6", "7", "8", "9">>

IsDigit(c) == \E i \in 1..10 : Digits[i] = c

DigitValue(c) == (CHOOSE i \in 1..10 : Digits[i] = c) - 1

\* [a-zA-Z0-9.-], the characters the two sanitizers keep
IsFilenameChar(c) ==
  \/ IsDigit(c)
  \/ c \in {".", "-"}
  \/ CharCode[c] \in 97..122
  \/ CharCode[c] \in 65..90

RECURSIVE NatToString(_)
NatToString(n) ==
  IF n < 10 THEN <<Digits[n + 1]>>
  ELSE NatToString(n \div 10) \o <<Digits[(n % 10) + 1]>>

\* Number.prototype.toString / String(n) of an integer
IntToString(n) == IF n < 0 THEN <<"-">> \o NatToString(-n) ELSE NatToString(n)

RECURSIVE PadStart(_, _, _)
PadStart(s, width, c) == IF Len(s) >= width THEN s ELSE PadStart(<<c>> \o s, width, c)

RECURSIVE ParseNat(_)
ParseNat(s) ==
  IF s = <<>> THEN 0
  ELSE 10 * ParseNat(SubSeq(s, 1, Len(s) - 1)) + DigitValue(s[Len(s)])

StartsWith(s, p) == Len(p) <= Len(s) /\ SubSeq(s, 1, Len(p)) = p

EndsWith(s, p) == Len(p) <= Len(s) /\ SubSeq(s, Len(s) - Len(p) + 1, Len(s)) = p

\* String.prototype.includes
Includes(s, p) == \E i \in 1..(Len(s) - Len(p) + 1) : SubSeq(s, i, i + Len(p) - 1) = p

\* s < t by UTF-16 code units
RECURSIVE StringLess(_, _)
StringLess(s, t) ==
  IF t = <<>> THEN FALSE
  ELSE IF s = <<>> THEN TRUE
  ELSE IF CharCode[Head(s)] # CharCode[Head(t)] THEN CharCode[Head(s)] < CharCode[Head(t)]
  ELSE StringLess(Tail(s), Tail(t))

\* String.prototype.split on a one-character separator
RECURSIVE Split(_, _)
Split(s, sep) ==
  IF \A i \in 1..Len(s) : s[i] # sep THEN <<s>>
  ELSE LET i == CHOOSE k \in 1..Len(s) : s[k] = sep /\ \A j \in 1..(k - 1) : s[j] # sep
       IN  <<SubSeq(s, 1, i - 1)>> \o Split(SubSeq(s, i + 1, Len(s)), sep)

\* String.prototype.trim for the space character
RECURSIVE Trim(_)
Trim(s) ==
  IF s # <<>> /\ Head(s) = " " THEN Trim(Tail(s))
  ELSE IF s # <<>> /\ s[Len(s)] = " " THEN Trim(SubSeq(s, 1, Len(s) - 1))
  ELSE s

\* ------------------------------------------------------------------------
\* JavaScript values

Undefined == [t |-> "undefined"]

Null == [t |-> "null"]

Num(n) == [t |-> "number", v |-> n]

Str(s) == [t |-> "string", v |-> s]

Bool(b) == [t |-> "boolean", v |-> b]

Arr(xs) == [t |-> "array", v |-> xs]

Obj(kvs) == [t |-> "object", v |-> kvs]

\* the not-a-number result of ToNumber
NaN == [t |-> "NaN"]

\* Object.prototype.hasOwnProperty.call(obj, key)
HasOwn(obj, key) == obj.t = "object" /\ \E i \in 1..Len(obj.v) : obj.v[i][1] = key

\* ToBoolean
Truthy(x) ==
  CASE x.t = "undefined" -> FALSE
    [] x.t = "null" -> FALSE
    [] x.t = "boolean" -> x.v
    [] x.t = "number" -> x.v # 0
    [] x.t = "string" -> x.v # <<>>
    [] OTHER -> TRUE

IsCanonicalIndex(key) ==
  /\ key # <<>>
  /\ \A i \in 1..Len(key) : IsDigit(key[i])
  /\ NatToString(ParseNat(key)) = key

\* obj[key] for a property key that is a string
Prop(x, key) ==
  CASE x.t = "object" ->
         IF HasOwn(x, key)
         THEN x.v[CHOOSE i \in 1..Len(x.v) : x.v[i][1] = key][2]
         ELSE Undefined
    [] x.t = "array" ->
         IF key = <<"l", "e", "n", "g", "t", "h">> THEN Num(Len(x.v))
         ELSE IF IsCanonicalIndex(key) /\ ParseNat(key) < Len(x.v) THEN x.v[ParseNat(key) + 1]
         ELSE Undefined
    [] x.t = "string" ->
         IF key = <<"l", "e", "n", "g", "t", "h">> THEN Num(Len(x.v))
         ELSE IF IsCanonicalIndex(key) /\ ParseNat(key) < Len(x.v)
              THEN Str(<<x.v[ParseNat(key) + 1]>>)
         ELSE Undefined
    [] OTHER -> Undefined

\* x === y; two arrays or two objects are equal only as the same object, and a
\* value parsed from a file is never the object a caller passes in
StrictEquals(x, y) ==
  /\ x.t = y.t
  /\ CASE x.t \in {"number", "string", "boolean"} -> x.v = y.v
       [] x.t \in {"null", "undefined"} -> TRUE
       [] OTHER -> FALSE

\* Array.prototype.includes on a sequence of values
ArrayIncludes(xs, y) == \E i \in 1..Len(xs) : StrictEquals(xs[i], y)

\* String(x) / template-literal conversion
RECURSIVE JsString(_)
RECURSIVE JoinValues(_)
JoinValues(xs) ==
  IF xs = <<>> THEN <<>>
  ELSE LET h == IF Head(xs).t \in {"null", "undefined"} THEN <<>> ELSE JsString(Head(xs))
       IN  IF Len(xs) = 1 THEN h ELSE h \o <<",">> \o JoinValues(Tail(xs))

JsString(x) ==
  CASE x.t = "string" -> x.v
    [] x.t = "number" -> IntToString(x.v)
    [] x.t = "boolean" -> IF x.v THEN <<"t", "r", "u", "e">> ELSE <<"f", "a", "l", "s", "e">>
    [] x.t = "null" -> <<"n", "u", "l", "l">>
    [] x.t = "undefined" -> <<"u", "n", "d", "e", "f", "i", "n", "e", "d">>
    [] x.t = "array" -> JoinValues(x.v)
    [] OTHER -> <<"[", "o", "b", "j", "e", "c", "t", " ", "O", "b", "j", "e", "c", "t", "]">>

\* ToNumber of a string: decimal digits, surrounding spaces ignored, "" is 0
StringToNumber(s) ==
  LET u == Trim(s)
  IN  IF u = <<>> THEN Num(0)
      ELSE IF \A i \in 1..Len(u) : IsDigit(u[i]) THEN Num(ParseNat(u))
      ELSE IF Len(u) > 1 /\ Head(u) = "-" /\ \A i \in 2..Len(u) : IsDigit(u[i])
           THEN Num(0 - ParseNat(Tail(u)))
      ELSE NaN

\* ToPrimitive (arrays and objects become strings)
ToPrimitive(x) == IF x.t \in {"array", "object"} THEN Str(JsString(x)) ELSE x

\* ToNumber of a primitive
ToNumber(p) ==
  CASE p.t = "number" -> p
    [] p.t = "null" -> Num(0)
    [] p.t = "boolean" -> IF p.v THEN Num(1) ELSE Num(0)
    [] p.t = "string" -> StringToNumber(p.v)
    [] OTHER -> NaN

\* The relational comparison of two numbers-or-NaN: "less", "greater", "equal",
\* or "unordered" when a side is NaN
RelateNumbers(nx, ny) ==
  IF nx.t # "number" \/ ny.t # "number" THEN "unordered"
  ELSE IF nx.v < ny.v THEN "less"
  ELSE IF nx.v > ny.v THEN "greater"
  ELSE "equal"

\* of two primitives: two strings by code units, anything else as numbers
RelatePrimitives(px, py) ==
  IF px.t = "string" /\ py.t = "string"
  THEN (IF StringLess(px.v, py.v) THEN "less"
        ELSE IF StringLess(py.v, px.v) THEN "greater"
        ELSE "equal")
  ELSE RelateNumbers(ToNumber(px), ToNumber(py))

\* How x stands to y under <, >, <= and >=
Relate(x, y) == RelatePrimitives(ToPrimitive(x), ToPrimitive(y))

\* x < y
LessThan(x, y) == Relate(x, y) = "less"

\* x <= y: false when either side converts to NaN
LessOrEqual(x, y) == Relate(x, y) \in {"less", "equal"}

\* JSON.parse(JSON.stringify(x)): undefined properties are dropped, undefined array
\* elements become null
RECURSIVE JsonRoundTrip(_)
RECURSIVE JsonProps(_)
JsonProps(kvs) ==
  IF kvs = <<>> THEN <<>>
  ELSE IF Head(kvs)[2].t = "undefined" THEN JsonProps(Tail(kvs))
  ELSE << <<Head(kvs)[1], JsonRoundTrip(Head(kvs)[2])>> >> \o JsonProps(Tail(kvs))

JsonRoundTrip(x) ==
  CASE x.t = "object" -> Obj(JsonProps(x.v))
    [] x.t = "array" ->
         Arr([i \in 1..Len(x.v) |->
                IF x.v[i].t = "undefined" THEN Null ELSE JsonRoundTrip(x.v[i])])
    [] OTHER -> x

\* ------------------------------------------------------------------------
\* Sequences

\* Array.prototype.slice(from, to) with 0-based, non-negative bounds
Slice(s, from, to) ==
  LET hi == IF to > Len(s) THEN Len(s) ELSE to
  IN  IF from >= hi THEN <<>> ELSE SubSeq(s, from + 1, hi)

\* The stable sort of s under a consistent order, given as the set `before` of
\* the pairs <<i, j>> with s[i] ordered before s[j]: an element goes after every
\* element ordered before it and after the earlier elements it ties with.
StableSort(s, before) ==
  LET rank(i) ==
        Cardinality({j \in 1..Len(s) :
                       \/ <<j, i>> \in before
                       \/ (j < i /\ <<i, j>> \notin before)}) + 1
  IN  [k \in 1..Len(s) |-> s[CHOOSE i \in 1..Len(s) : rank(i) = k]]

\* Array.prototype.sort() without a comparator: by String() of the elements
DefaultSort(s) ==
  StableSort(s, {p \in (1..Len(s)) \X (1..Len(s)) :
                   StringLess(JsString(s[p[1]]), JsString(s[p[2]]))})

\* ------------------------------------------------------------------------
\* Files of the output directory

NoFile == [t |-> "nofile"]

\* A file that is there but that JSON.parse rejects
Unreadable == [t |-> "unreadable"]

\* The file exists and parses
Readable(file) == file # NoFile /\ file # Unreadable

EmptyDir == <<>>

\* fs.writeFileSync: a later write to the same path replaces the file
WriteFile(dir, path, content) ==
  [p \in (DOMAIN dir) \cup {path} |-> IF p = path THEN content ELSE dir[p]]

\* fs.existsSync + fs.readFileSync + JSON.parse
ReadFile(dir, path) == IF path \in DOMAIN dir THEN dir[path] ELSE NoFile

JsonSuffix == <<".", "j", "s", "o", "n">>

\* path.join(a, b)
PathJoin(a, b) == a \o <<"/">> \o b

\* ------------------------------------------------------------------------
\* DataSplitter (src/src/builder/data-splitter.ts)

PrimaryKeyField == <<"i", "d">>

MaxIdLength == 50

FilesPerSubdirectory == 1000

BatchesPerSubdirectory == 100

SubdirectoryWidth == 3

BatchIndexWidth == 4

\* replace(/[^a-zA-Z0-9.-]/g, '_')
ReplaceUnsafe(s) == [i \in 1..Len(s) |-> IF IsFilenameChar(s[i]) THEN s[i] ELSE "_"]

\* replace(/_{2,}/g, '_')
RECURSIVE CollapseUnderscores(_)
CollapseUnderscores(s) ==
  IF Len(s) < 2 THEN s
  ELSE IF s[1] = "_" /\ s[2] = "_" THEN CollapseUnderscores(Tail(s))
  ELSE <<s[1]>> \o CollapseUnderscores(Tail(s))

\* replace(/^_|_$/g, '')
StripUnderscores(s) ==
  LET a == IF s # <<>> /\ Head(s) = "_" THEN Tail(s) ELSE s
  IN  IF a # <<>> /\ a[Len(a)] = "_" THEN SubSeq(a, 1, Len(a) - 1) ELSE a

sanitizeId(id) ==
  Slice(StripUnderscores(CollapseUnderscores(ReplaceUnsafe(JsString(id)))), 0, MaxIdLength)

\* with the default filenameTemplate '{id}'
generateFilename(recordId, index) == sanitizeId(recordId) \o JsonSuffix

generateBatchFilename(batchIndex) ==
  <<"b", "a", "t", "c", "h", "_">> \o PadStart(NatToString(batchIndex), BatchIndexWidth, "0")
    \o JsonSuffix

getSubdirectory(index) ==
  PadStart(NatToString(index \div FilesPerSubdirectory), SubdirectoryWidth, "0")

getBatchSubdirectory(batchIndex) ==
  <<"b", "a", "t", "c", "h", "e", "s", "_">>
    \o PadStart(NatToString(batchIndex \div BatchesPerSubdirectory), SubdirectoryWidth, "0")

\* The first record, in input order, whose key was already seen (0 if none)
RECURSIVE FirstRepeat(_, _, _)
FirstRepeat(records, pk, i) ==
  IF i > Len(records) THEN 0
  ELSE IF \E j \in 1..(i - 1) : StrictEquals(Prop(records[j], pk), Prop(records[i], pk))
       THEN i
  ELSE FirstRepeat(records, pk, i + 1)

\* The error validateRecords throws, or NoError
NoError == [kind |-> "none"]

\* The duplicate-key error for the record at position d, none for d = 0
DuplicateError(records, pk, d) ==
  IF d # 0
  THEN [kind |-> "DuplicateKey", value |-> JsString(Prop(records[d], pk))]
  ELSE NoError

\* validateRecords with the duplicate check ahead of the ownership check
validateRecordsDuplicatesFirst(records, pk) ==
  IF Len(records) = 0 THEN [kind |-> "NoRecords"]
  ELSE IF FirstRepeat(records, pk, 1) # 0
       THEN DuplicateError(records, pk, FirstRepeat(records, pk, 1))
  ELSE IF ~(\A i \in 1..Len(records) : HasOwn(records[i], pk))
       THEN [kind |-> "MissingKey", field |-> pk]
  ELSE NoError

validateRecords(records, pk) ==
  IF Len(records) = 0 THEN [kind |-> "NoRecords"]
  ELSE IF ~(\A i \in 1..Len(records) : HasOwn(records[i], pk))
       THEN [kind |-> "MissingKey", field |-> pk]
  ELSE DuplicateError(records, pk, FirstRepeat(records, pk, 1))

IsBatchMode(opts) == Truthy(opts.batchSize) /\ LessThan(Num(1), opts.batchSize)

\* The manifest entry of a file (its size left out)
FileEntry(relativePath, recordIds, subdirectory, opts) ==
  [filename |-> relativePath,
   recordCount |-> Len(recordIds),
   recordIds |-> recordIds,
   subdirectory |-> IF opts.useSubdirectories THEN Str(subdirectory) ELSE Undefined]

\* path.join(subdirectory, filename) when subdirectories are used
RelativePath(subdirectory, filename, opts) ==
  IF opts.useSubdirectories THEN PathJoin(subdirectory, filename) ELSE filename

\* One write: the file and its manifest entry added to acc
Written(acc, relativePath, content, recordIds, subdirectory, opts) ==
  [data |-> WriteFile(acc.data, relativePath, JsonRoundTrip(content)),
   files |-> Append(acc.files, FileEntry(relativePath, recordIds, subdirectory, opts))]

\* One record per file: the writes of records i..n and their manifest entries
RECURSIVE writeRecordFiles(_, _, _, _)
writeRecordFiles(records, opts, i, acc) ==
  IF i > Len(records) THEN acc
  ELSE writeRecordFiles(records, opts, i + 1,
         Written(acc,
                 RelativePath(getSubdirectory(i - 1),
                              generateFilename(Prop(records[i], opts.primaryKeyField), i - 1),
                              opts),
                 records[i],
                 <<Prop(records[i], opts.primaryKeyField)>>,
                 getSubdirectory(i - 1),
                 opts))

\* records.map(record => record[primaryKeyField])
KeysOf(batch, pk) == [k \in 1..Len(batch) |-> Prop(batch[k], pk)]

\* splitIntoBatches whose batches hold one record fewer than the batch size
RECURSIVE splitIntoBatchesShort(_, _, _, _)
splitIntoBatchesShort(records, opts, i, acc) ==
  IF i >= Len(records) THEN acc
  ELSE splitIntoBatchesShort(records, opts, i + opts.batchSize.v,
         Written(acc,
                 RelativePath(getBatchSubdirectory(i \div opts.batchSize.v),
                              generateBatchFilename(i \div opts.batchSize.v),
                              opts),
                 Arr(Slice(records, i, i + opts.batchSize.v - 1)),
                 KeysOf(Slice(records, i, i + opts.batchSize.v - 1), opts.primaryKeyField),
                 getBatchSubdirectory(i \div opts.batchSize.v),
                 opts))

\* Batch mode: the writes of the batches starting at 0-based record i
RECURSIVE splitIntoBatches(_, _, _, _)
splitIntoBatches(records, opts, i, acc) ==
  IF i >= Len(records) THEN acc
  ELSE splitIntoBatches(records, opts, i + opts.batchSize.v,
         Written(acc,
                 RelativePath(getBatchSubdirectory(i \div opts.batchSize.v),
                              generateBatchFilename(i \div opts.batchSize.v),
                              opts),
                 Arr(Slice(records, i, i + opts.batchSize.v)),
                 KeysOf(Slice(records, i, i + opts.batchSize.v), opts.primaryKeyField),
                 getBatchSubdirectory(i \div opts.batchSize.v),
                 opts))

\* split-metadata.json as JSON.parse reads it back (sizes and dates left out)
ManifestJson(records, opts, files) ==
  [totalRecords |-> Len(records),
   totalFiles |-> Len(files),
   primaryKeyField |-> opts.primaryKeyField,
   batchSize |-> IF LessThan(Num(1), opts.batchSize) THEN opts.batchSize ELSE Undefined,
   useSubdirectories |-> opts.useSubdirectories,
   files |-> [k \in 1..Len(files) |->
                [files[k] EXCEPT !.recordIds = JsonRoundTrip(Arr(@)).v]]]

\* splitRecords that writes the data files before it validates the records
splitRecordsWritingFirst(records, opts) ==
  LET finish(written) ==
        IF validateRecords(records, opts.primaryKeyField) # NoError
        THEN [error |-> validateRecords(records, opts.primaryKeyField),
              data |-> written.data,
              split |-> NoFile]
        ELSE [error |-> NoError,
              data |-> written.data,
              split |-> ManifestJson(records, opts, written.files)]
  IN  finish(IF IsBatchMode(opts)
             THEN splitIntoBatches(records, opts, 0, [data |-> EmptyDir, files |-> <<>>])
             ELSE writeRecordFiles(records, opts, 1, [data |-> EmptyDir, files |-> <<>>]))

\* splitRecords: the error it throws, the data files and the manifest it writes
splitRecords(records, opts) ==
  LET finish(written) ==
        [error |-> NoError,
         data |-> written.data,
         split |-> ManifestJson(records, opts, written.files)]
  IN  IF validateRecords(records, opts.primaryKeyField) # NoError
      THEN [error |-> validateRecords(records, opts.primaryKeyField),
            data |-> EmptyDir,
            split |-> NoFile]
      ELSE finish(IF IsBatchMode(opts)
                  THEN splitIntoBatches(records, opts, 0, [data |-> EmptyDir, files |-> <<>>])
                  ELSE writeRecordFiles(records, opts, 1, [data |-> EmptyDir, files |-> <<>>]))

\* ------------------------------------------------------------------------
\* IndexGenerator (src/src/builder/index-generator.ts)
\*
\* The walk is modelled by the sequence of its effects, in program order:
\*   touch  fieldStats.set / fieldMetadata.set for a new path, metadata.count++
\*   type   metadata.type = 'array' | 'nested'
\*   add    addToIndex(stats, value, recordId)
\* fieldStats and fieldMetadata are then one sequence, in Map insertion order, of
\* [path, count, type, values], values being the [value, ids] pairs in insertion
\* order of the value Map and of each id Set.

DefaultMaxIndexValues == 10000

\* typeof value is string | number | boolean, or value is null
isPrimitive(value) == value.t \in {"string", "number", "boolean", "null"}

Touch(path) == [e |-> "touch", path |-> path]

SetType(path, type) == [e |-> "type", path |-> path, type |-> type]

addToIndex(path, value, recordId) ==
  [e |-> "add", path |-> path, value |-> value, recordId |-> recordId]

\* value.forEach(item => isPrimitive(item) && addToIndex(stats, item, recordId))
RECURSIVE AddElements(_, _, _)
AddElements(path, items, recordId) ==
  IF items = <<>> THEN <<>>
  ELSE (IF isPrimitive(Head(items)) THEN <<addToIndex(path, Head(items), recordId)>>
        ELSE <<>>) \o AddElements(path, Tail(items), recordId)

RECURSIVE analyzeRecord(_, _, _)
RECURSIVE AnalyzeEntries(_, _, _)
RECURSIVE AnalyzeElements(_, _, _)

\* value.forEach(item => item is a plain object && analyzeRecord(item, id, path + '[]'))
AnalyzeElements(items, recordId, path) ==
  IF items = <<>> THEN <<>>
  ELSE (IF Head(items).t = "object"
        THEN analyzeRecord(Head(items), recordId, path \o <<"[", "]">>)
        ELSE <<>>) \o AnalyzeElements(Tail(items), recordId, path)

\* The loop over Object.entries(record), from the first of kvs on; a null or
\* undefined value ends the whole call (the `return` of line 121)
AnalyzeEntries(kvs, recordId, prefix) ==
  IF kvs = <<>> THEN <<>>
  ELSE LET key == Head(kvs)[1]
           value == Head(kvs)[2]
           fieldPath == IF prefix # <<>> THEN prefix \o <<".">> \o key ELSE key
       IN  IF value.t \in {"null", "undefined"}
           THEN <<Touch(fieldPath), addToIndex(fieldPath, Null, recordId)>>
           ELSE IF value.t = "array"
           THEN <<Touch(fieldPath), SetType(fieldPath, "array")>>
                  \o AddElements(fieldPath, value.v, recordId)
                  \o AnalyzeElements(value.v, recordId, fieldPath)
                  \o AnalyzeEntries(Tail(kvs), recordId, prefix)
           ELSE IF value.t = "object"
           THEN <<Touch(fieldPath), SetType(fieldPath, "nested")>>
                  \o analyzeRecord(value, recordId, fieldPath)
                  \o AnalyzeEntries(Tail(kvs), recordId, prefix)
           ELSE <<Touch(fieldPath), addToIndex(fieldPath, value, recordId)>>
                  \o AnalyzeEntries(Tail(kvs), recordId, prefix)

analyzeRecord(record, recordId, prefix) ==
  IF record.t # "object" THEN <<>>
  ELSE AnalyzeEntries(record.v, recordId, prefix)

\* record[primaryKeyField] || index.toString()
IndexRecordId(record, pk, index) ==
  IF Truthy(Prop(record, pk)) THEN Prop(record, pk) ELSE Str(NatToString(index))

\* records.forEach((record, index) => analyzeRecord(record, recordId, ''))
RECURSIVE AnalyzeAll(_, _, _)
AnalyzeAll(records, pk, i) ==
  IF i > Len(records) THEN <<>>
  ELSE analyzeRecord(records[i], IndexRecordId(records[i], pk, i - 1), <<>>)
         \o AnalyzeAll(records, pk, i + 1)

\* The elements of s, each once, in order of first occurrence
RECURSIVE FirstOccurrences(_)
FirstOccurrences(s) ==
  IF s = <<>> THEN <<>>
  ELSE LET front == FirstOccurrences(SubSeq(s, 1, Len(s) - 1))
       IN  IF \E k \in 1..Len(front) : front[k] = s[Len(s)] THEN front
           ELSE Append(front, s[Len(s)])

\* fieldStats / fieldMetadata after the effects of the walk
FieldStats(effects) ==
  LET on(path, e) == SelectSeq(effects, LAMBDA x : x.e = e /\ x.path = path)
      paths == FirstOccurrences([k \in 1..Len(effects) |-> effects[k].path])
      typeOf(path) ==
        LET types == on(path, "type")
        IN  IF types = <<>> THEN "primitive" ELSE types[Len(types)].type
      valuesOf(path) ==
        LET adds == on(path, "add")
            values == FirstOccurrences([k \in 1..Len(adds) |-> adds[k].value])
            idsOf(value) ==
              LET hits == SelectSeq(adds, LAMBDA x : x.value = value)
              IN  FirstOccurrences([k \in 1..Len(hits) |-> hits[k].recordId])
        IN  [k \in 1..Len(values) |-> [value |-> values[k], ids |-> idsOf(values[k])]]
  IN  [k \in 1..Len(paths) |->
         [path |-> paths[k],
          count |-> Len(on(paths[k], "touch")),
          type |-> typeOf(paths[k]),
          values |-> valuesOf(paths[k])]]

sanitizeFieldName(fieldName) ==
  StripUnderscores(CollapseUnderscores(ReplaceUnsafe(fieldName)))

\* The index file of one path (dates left out): the entries sorted by number of
\* record ids, most first; coverage is kept as the pair <<count, totalRecords>>
\* of the quotient the code computes
generateFieldIndex(stat, totalRecords) ==
  LET indexData(indexEntries) ==
        [field |-> stat.path,
         entries |-> indexEntries,
         metadata |-> [uniqueValues |-> Len(indexEntries),
                       totalRecords |-> totalRecords,
                       coverage |-> <<stat.count, totalRecords>>]]
      sort(listed) ==
        StableSort(listed, {p \in (1..Len(listed)) \X (1..Len(listed)) :
                              Len(listed[p[1]].recordIds) > Len(listed[p[2]].recordIds)})
  IN  indexData(sort([k \in 1..Len(stat.values) |->
                        [value |-> stat.values[k].value,
                         recordIds |-> DefaultSort(stat.values[k].ids)]]))

IndexMetadataOf(stat, totalRecords) ==
  [field |-> stat.path,
   type |-> stat.type,
   uniqueValues |-> Len(stat.values),
   totalRecords |-> totalRecords,
   coverage |-> <<stat.count, totalRecords>>]

\* IsRetained that also skips a path with exactly maxIndexValues unique values
IsRetainedBelow(stat, opts) ==
  /\ ~(Len(stat.values) >= opts.maxIndexValues)
  /\ (opts.indexFields.t = "undefined"
        \/ \E k \in 1..Len(opts.indexFields.v) : opts.indexFields.v[k] = stat.path)

\* Skip a path with too many unique values or outside the allow-list
IsRetained(stat, opts) ==
  /\ ~(Len(stat.values) > opts.maxIndexValues)
  /\ (opts.indexFields.t = "undefined"
        \/ \E k \in 1..Len(opts.indexFields.v) : opts.indexFields.v[k] = stat.path)

\* the writes of the index files of stats[i..], in Map order
RECURSIVE WriteFieldIndexes(_, _, _, _, _)
WriteFieldIndexes(stats, opts, totalRecords, i, acc) ==
  IF i > Len(stats) THEN acc
  ELSE WriteFieldIndexes(stats, opts, totalRecords, i + 1,
         IF IsRetained(stats[i], opts)
         THEN [indexes |-> WriteFile(acc.indexes,
                                     sanitizeFieldName(stats[i].path) \o JsonSuffix,
                                     generateFieldIndex(stats[i], totalRecords)),
               indexMetadata |-> Append(acc.indexMetadata,
                                        IndexMetadataOf(stats[i], totalRecords))]
         ELSE acc)

generatePrimaryKeyIndex(records, pk) ==
  [field |-> pk,
   entries |-> [i \in 1..Len(records) |->
                  [id |-> IndexRecordId(records[i], pk, i - 1), index |-> i - 1]]]

generateDatabaseMetadata(stats, indexMetadata, totalRecords) ==
  LET names(sorted) == [k \in 1..Len(sorted) |-> sorted[k].v]
  IN  [totalRecords |-> totalRecords,
       indexes |-> indexMetadata,
       fields |-> names(DefaultSort([i \in 1..Len(stats) |-> Str(stats[i].path)]))]

PrimaryIndexFile == <<"_", "p", "r", "i", "m", "a", "r", "y">> \o JsonSuffix

\* generateIndexes: the index files (the Primary Index among them) and metadata.json
generateIndexes(records, opts) ==
  LET finish(stats, written) ==
        [indexes |-> WriteFile(written.indexes, PrimaryIndexFile,
                               generatePrimaryKeyIndex(records, opts.primaryKeyField)),
         metadata |-> generateDatabaseMetadata(stats, written.indexMetadata, Len(records))]
      write(stats) ==
        finish(stats, WriteFieldIndexes(stats, opts, Len(records), 1,
                                        [indexes |-> EmptyDir, indexMetadata |-> <<>>]))
  IN  write(FieldStats(AnalyzeAll(records, opts.primaryKeyField, 1)))

\* ------------------------------------------------------------------------
\* The output directory and AntipatternBuilder.build

EmptyDisk ==
  [data |-> EmptyDir, split |-> NoFile, indexes |-> EmptyDir, metadata |-> NoFile,
   schema |-> NoFile]

\* build: splitRecords, then generateIndexes unless splitRecords threw; a throw
\* leaves the directory as splitRecords left it
build(records, opts) ==
  LET outcome(split, index) ==
        IF split.error # NoError
        THEN [error |-> split.error,
              disk |-> [EmptyDisk EXCEPT !.data = split.data, !.split = split.split]]
        ELSE [error |-> NoError,
              disk |-> [data |-> split.data,
                        split |-> split.split,
                        indexes |-> index.indexes,
                        metadata |-> index.metadata,
                        schema |-> NoFile]]
  IN  outcome(splitRecords(records, opts), generateIndexes(records, opts))

\* ------------------------------------------------------------------------
\* NodeDataLoader (src/src/runtime/adapters/node-data-loader.ts)

\* loadIndex: indexes/<field>.json, or null
LoaderLoadIndex(disk, field) == ReadFile(disk.indexes, field \o JsonSuffix)

LoaderLoadPrimaryIndex(disk) == ReadFile(disk.indexes, PrimaryIndexFile)

\* The position of the first record of items whose key is recordId, from k on;
\* 0 when there is none
RECURSIVE FindIndexByKey(_, _, _, _)
FindIndexByKey(items, pk, recordId, k) ==
  IF k > Len(items) THEN 0
  ELSE IF StrictEquals(Prop(items[k], pk), recordId) THEN k
  ELSE FindIndexByKey(items, pk, recordId, k + 1)

\* fileContent.find(r => r[primaryKeyField] === recordId) || null
FindInBatch(content, pk, recordId) ==
  LET orNull(k) ==
        IF k = 0 THEN Null ELSE IF Truthy(content.v[k]) THEN content.v[k] ELSE Null
  IN  IF content.t = "array"
      THEN orNull(FindIndexByKey(content.v, pk, recordId, 1))
      ELSE Null

LoaderLoadRecord(disk, recordId, fileInfo, splitMetadata) ==
  LET find(content) ==
        IF ~Readable(content) THEN Null
        ELSE IF LessThan(Num(1), splitMetadata.batchSize)
             THEN FindInBatch(content, splitMetadata.primaryKeyField, recordId)
        ELSE IF StrictEquals(Prop(content, splitMetadata.primaryKeyField), recordId)
             THEN content
        ELSE Null
  IN  find(ReadFile(disk.data, fileInfo.filename))

\* ------------------------------------------------------------------------
\* QueryEngine (src/unnamed/part_015, runtime/core/query-engine.ts)

NewEngine ==
  [initialized |-> FALSE,
   metadata |-> NoFile,
   splitMetadata |-> NoFile,
   schema |-> Undefined,
   indexCache |-> EmptyDir,
   recordCache |-> EmptyDir]

\* loadSchema: schema.json parsed, or null when it is missing or does not parse
LoaderLoadSchema(disk) == IF Readable(disk.schema) THEN disk.schema ELSE Null

\* ensureInitialized that keeps whichever of metadata and manifest did load
ensureInitializedPartly(engine, disk) ==
  IF engine.initialized THEN [ok |-> TRUE, engine |-> engine]
  ELSE [ok |-> Readable(disk.metadata) /\ Readable(disk.split),
        engine |-> [engine EXCEPT
                      !.initialized = Readable(disk.metadata) /\ Readable(disk.split),
                      !.metadata = IF Readable(disk.metadata) THEN disk.metadata ELSE @,
                      !.splitMetadata = IF Readable(disk.split) THEN disk.split ELSE @,
                      !.schema = LoaderLoadSchema(disk)]]

\* init / ensureInitialized / loadMetadata / loadSchema: loadSchema sets the
\* schema whatever loadMetadata does; metadata and manifest are set together when
\* both load, and only then is the engine marked initialized; otherwise the call
\* is rejected
ensureInitialized(engine, disk) ==
  IF engine.initialized THEN [ok |-> TRUE, engine |-> engine]
  ELSE IF ~Readable(disk.metadata) \/ ~Readable(disk.split)
       THEN [ok |-> FALSE, engine |-> [engine EXCEPT !.schema = LoaderLoadSchema(disk)]]
  ELSE [ok |-> TRUE,
        engine |-> [engine EXCEPT !.initialized = TRUE,
                                  !.metadata = disk.metadata,
                                  !.splitMetadata = disk.split,
                                  !.schema = LoaderLoadSchema(disk)]]

\* loadIndex: the cached index, else the loader's, cached when there is one
loadIndex(engine, disk, field) ==
  LET cache(indexData) ==
        IF Readable(indexData)
        THEN [engine |-> [engine EXCEPT !.indexCache = WriteFile(@, field, indexData)],
              index |-> indexData]
        ELSE [engine |-> engine, index |-> NoFile]
  IN  IF field \in DOMAIN engine.indexCache
      THEN [engine |-> engine, index |-> engine.indexCache[field]]
      ELSE cache(LoaderLoadIndex(disk, field))

\* The position of the first file whose recordIds include recordId, from k on;
\* 0 when there is none
RECURSIVE FindFileIndex(_, _, _)
FindFileIndex(files, recordId, k) ==
  IF k > Len(files) THEN 0
  ELSE IF ArrayIncludes(files[k].recordIds, recordId) THEN k
  ELSE FindFileIndex(files, recordId, k + 1)

\* splitMetadata.files.find(file => file.recordIds.includes(recordId))
FindFileInfo(splitMetadata, recordId) ==
  LET at(k) == IF k = 0 THEN NoFile ELSE splitMetadata.files[k]
  IN  at(FindFileIndex(splitMetadata.files, recordId, 1))

\* loadRecord: the cached record, else the loader's, cached unless null
loadRecord(engine, disk, recordId) ==
  LET cache(record) ==
        IF Truthy(record)
        THEN [engine |-> [engine EXCEPT !.recordCache = WriteFile(@, recordId, record)],
              record |-> record]
        ELSE [engine |-> engine, record |-> Null]
      load(fileInfo) ==
        IF fileInfo = NoFile THEN [engine |-> engine, record |-> Null]
        ELSE cache(LoaderLoadRecord(disk, recordId, fileInfo, engine.splitMetadata))
  IN  IF recordId \in DOMAIN engine.recordCache
      THEN [engine |-> engine, record |-> engine.recordCache[recordId]]
      ELSE load(FindFileInfo(engine.splitMetadata, recordId))

\* new Set(ids): insertion order, each id once
RECURSIVE Distinct(_)
Distinct(ids) ==
  IF ids = <<>> THEN <<>>
  ELSE LET front == Distinct(SubSeq(ids, 1, Len(ids) - 1))
           last == ids[Len(ids)]
       IN  IF ArrayIncludes(front, last) THEN front ELSE Append(front, last)

\* getAllRecordIds: the ids of the Primary Index, read from the loader at each call
getAllRecordIds(disk) ==
  LET primaryIndex == LoaderLoadPrimaryIndex(disk)
  IN  Distinct([k \in 1..Len(primaryIndex.entries) |-> primaryIndex.entries[k].id])

\* path.split('.').reduce((current, key) =>
\*   current && current[key] !== undefined ? current[key] : undefined, obj)
RECURSIVE ReducePath(_, _)
ReducePath(current, keys) ==
  IF keys = <<>> THEN current
  ELSE ReducePath(IF Truthy(current) THEN Prop(current, Head(keys)) ELSE Undefined,
                  Tail(keys))

getNestedValue(obj, path) == ReducePath(obj, Split(path, "."))

\* The operator of a filter applied to a stored value (an index entry's value or
\* the value found in a record); `relation` is how the value stands to the
\* filter's value
OperatorMatches(value, filter) ==
  LET holds(relation) ==
        CASE filter.operator = "EQUALS" -> StrictEquals(value, filter.value)
          [] filter.operator = "NOT_EQUALS" -> ~StrictEquals(value, filter.value)
          [] filter.operator = "GREATER_THAN" -> relation = "greater"
          [] filter.operator = "LESS_THAN" -> relation = "less"
          [] filter.operator = "GREATER_THAN_OR_EQUAL" -> relation \in {"greater", "equal"}
          [] filter.operator = "LESS_THAN_OR_EQUAL" -> relation \in {"less", "equal"}
          [] filter.operator = "IN" ->
               filter.value.t = "array" /\ ArrayIncludes(filter.value.v, value)
          [] filter.operator = "CONTAINS" ->
               IF value.t = "array" THEN ArrayIncludes(value.v, filter.value)
               ELSE /\ value.t = "string"
                    /\ filter.value.t = "string"
                    /\ Includes(value.v, filter.value.v)
          [] filter.operator = "STARTS_WITH" ->
               /\ value.t = "string"
               /\ filter.value.t = "string"
               /\ StartsWith(value.v, filter.value.v)
          [] filter.operator = "ENDS_WITH" ->
               /\ value.t = "string"
               /\ filter.value.t = "string"
               /\ EndsWith(value.v, filter.value.v)
          [] OTHER -> FALSE
  IN  holds(Relate(value, filter.value))

recordMatchesFilter(record, filter) ==
  OperatorMatches(getNestedValue(record, filter.field), filter)

\* recordMatchesFilters with `some` in place of `every`
recordMatchesSomeFilter(record, filters) ==
  \E k \in 1..Len(filters) : recordMatchesFilter(record, filters[k])

recordMatchesFilters(record, filters) ==
  \A k \in 1..Len(filters) : recordMatchesFilter(record, filters[k])

\* entries.forEach(entry => matches && entry.recordIds.forEach(id => resultIds.add(id)))
RECURSIVE MatchingEntryIds(_, _)
MatchingEntryIds(entries, filter) ==
  IF entries = <<>> THEN <<>>
  ELSE (IF OperatorMatches(Head(entries).value, filter) THEN Head(entries).recordIds
        ELSE <<>>) \o MatchingEntryIds(Tail(entries), filter)

\* getRecordIdsFromIndex on a loaded index (the entries format the builder writes)
getRecordIdsFromIndex(index, filter) == Distinct(MatchingEntryIds(index.entries, filter))

\* scanRecordsForFilter from the k-th id of allIds on
RECURSIVE scanRecordsForFilter(_, _, _, _, _, _)
scanRecordsForFilter(engine, disk, filter, allIds, k, resultIds) ==
  IF k > Len(allIds) THEN [engine |-> engine, ids |-> resultIds]
  ELSE LET step(loaded) ==
             scanRecordsForFilter(loaded.engine, disk, filter, allIds, k + 1,
               IF Truthy(loaded.record) /\ recordMatchesFilter(loaded.record, filter)
               THEN Append(resultIds, allIds[k])
               ELSE resultIds)
       IN  step(loadRecord(engine, disk, allIds[k]))

\* getRecordIdsForFilter that gives up, with no ids, when there is no index
getRecordIdsWithoutScan(engine, disk, filter) ==
  LET lookup(loaded) ==
        [engine |-> loaded.engine,
         ids |-> IF loaded.index # NoFile
                 THEN getRecordIdsFromIndex(loaded.index, filter)
                 ELSE <<>>,
         path |-> IF loaded.index # NoFile THEN "index" ELSE "scan"]
  IN  lookup(loadIndex(engine, disk, filter.field))

\* getRecordIdsForFilter: the index when loadIndex yields one, else the scan
getRecordIdsForFilter(engine, disk, filter) ==
  LET scanned(scan) == [engine |-> scan.engine, ids |-> scan.ids, path |-> "scan"]
      lookup(loaded) ==
        IF loaded.index # NoFile
        THEN [engine |-> loaded.engine,
              ids |-> getRecordIdsFromIndex(loaded.index, filter),
              path |-> "index"]
        ELSE scanned(scanRecordsForFilter(loaded.engine, disk, filter,
                                          getAllRecordIds(disk), 1, <<>>))
  IN  lookup(loadIndex(engine, disk, filter.field))

\* The intersection loop with its test negated
IntersectionNegated(candidateIds, filterIds) ==
  SelectSeq(candidateIds, LAMBDA id : ~ArrayIncludes(filterIds, id))

\* for (const id of candidateIds) if (filterIds.has(id)) intersection.add(id)
Intersection(candidateIds, filterIds) ==
  SelectSeq(candidateIds, LAMBDA id : ArrayIncludes(filterIds, id))

\* The filter loop of executeQuery from the k-th filter on; candidates.none is
\* candidateIds === null (no filter applied yet), and an empty set ends the loop
NoCandidates == [none |-> TRUE, ids |-> <<>>]

\* The filter loop without its `break`
RECURSIVE ResolveFiltersAll(_, _, _, _, _, _)
ResolveFiltersAll(engine, disk, filters, k, candidates, paths) ==
  IF k > Len(filters)
  THEN [engine |-> engine, candidates |-> candidates, paths |-> paths]
  ELSE LET step(got) ==
             ResolveFiltersAll(got.engine, disk, filters, k + 1,
                               [none |-> FALSE,
                                ids |-> IF candidates.none THEN got.ids
                                        ELSE Intersection(candidates.ids, got.ids)],
                               Append(paths, got.path))
       IN  step(getRecordIdsForFilter(engine, disk, filters[k]))

RECURSIVE ResolveFilters(_, _, _, _, _, _)
ResolveFilters(engine, disk, filters, k, candidates, paths) ==
  IF k > Len(filters)
  THEN [engine |-> engine, candidates |-> candidates, paths |-> paths]
  ELSE LET narrowed(got, next) ==
             IF Len(next) = 0
             THEN [engine |-> got.engine,
                   candidates |-> [none |-> FALSE, ids |-> next],
                   paths |-> Append(paths, got.path)]
             ELSE ResolveFilters(got.engine, disk, filters, k + 1,
                                 [none |-> FALSE, ids |-> next], Append(paths, got.path))
           step(got) ==
             narrowed(got, IF candidates.none THEN got.ids
                           ELSE Intersection(candidates.ids, got.ids))
       IN  step(getRecordIdsForFilter(engine, disk, filters[k]))

\* The load loop of executeQuery: each candidate is loaded and kept when it is
\* found and matches every filter
RECURSIVE LoadCandidates(_, _, _, _, _, _)
LoadCandidates(engine, disk, candidateIds, k, filters, records) ==
  IF k > Len(candidateIds) THEN [engine |-> engine, records |-> records]
  ELSE LET step(loaded) ==
             LoadCandidates(loaded.engine, disk, candidateIds, k + 1, filters,
               IF Truthy(loaded.record) /\ recordMatchesFilters(loaded.record, filters)
               THEN Append(records, loaded.record)
               ELSE records)
       IN  step(loadRecord(engine, disk, candidateIds[k]))

\* The comparator of applySorting from the k-th sort key on: -1, 0 or 1
RECURSIVE CompareRecords(_, _, _, _)
CompareRecords(a, b, sortOptions, k) ==
  IF k > Len(sortOptions) THEN 0
  ELSE LET decide(comparison) ==
             IF comparison # 0
             THEN (IF sortOptions[k].direction = "desc" THEN -comparison ELSE comparison)
             ELSE CompareRecords(a, b, sortOptions, k + 1)
           compare(relation) ==
             decide(IF relation = "less" THEN -1
                    ELSE IF relation = "greater" THEN 1
                    ELSE 0)
       IN  compare(Relate(getNestedValue(a, sortOptions[k].field),
                          getNestedValue(b, sortOptions[k].field)))

\* records.sort(comparator). The comparator answers 0 for two values that are not
\* ordered (a missing value against a number), so it need not be consistent, and
\* the order Array.prototype.sort then leaves is the engine's. The model sorts as
\* Node's V8 sorts an array of fewer than 64 elements: the run the array starts
\* with, reversed when it descends, then binary insertion of the rest.

\* The last index of the run that starts at 1, from index idx on
RECURSIVE RunEnd(_, _, _, _)
RunEnd(a, sortOptions, descending, idx) ==
  IF idx > Len(a) THEN Len(a)
  ELSE LET continue(order) ==
             IF (descending /\ order >= 0) \/ (~descending /\ order < 0)
             THEN idx - 1
             ELSE RunEnd(a, sortOptions, descending, idx + 1)
       IN  continue(CompareRecords(a[idx], a[idx - 1], sortOptions, 1))

\* The length of the run the array starts with, and the array with that run
\* reversed in place when it descends
CountAndMakeRun(a, sortOptions) ==
  LET make(descending, runLength) ==
        [run |-> runLength,
         a |-> IF descending
               THEN [k \in 1..Len(a) |->
                       IF k <= runLength THEN a[runLength + 1 - k] ELSE a[k]]
               ELSE a]
      count(descending) == make(descending, RunEnd(a, sortOptions, descending, 3))
  IN  IF Len(a) < 2 THEN [run |-> Len(a), a |-> a]
      ELSE count(CompareRecords(a[2], a[1], sortOptions, 1) < 0)

\* The 0-based place of pivot among a[left+1..right] by bisection
RECURSIVE InsertionPoint(_, _, _, _, _)
InsertionPoint(a, pivot, sortOptions, left, right) ==
  IF left >= right THEN left
  ELSE LET mid == left + ((right - left) \div 2)
       IN  IF CompareRecords(pivot, a[mid + 1], sortOptions, 1) < 0
           THEN InsertionPoint(a, pivot, sortOptions, left, mid)
           ELSE InsertionPoint(a, pivot, sortOptions, mid + 1, right)

\* a[1..start] is sorted; the elements after it are inserted one by one
RECURSIVE BinaryInsertionSort(_, _, _)
BinaryInsertionSort(a, sortOptions, start) ==
  IF start >= Len(a) THEN a
  ELSE LET insert(left) ==
             SubSeq(a, 1, left) \o <<a[start + 1]>> \o SubSeq(a, left + 1, start)
               \o SubSeq(a, start + 2, Len(a))
       IN  BinaryInsertionSort(
             insert(InsertionPoint(a, a[start + 1], sortOptions, 0, start)),
             sortOptions, start + 1)

applySorting(records, sortOptions) ==
  LET sort(made) == BinaryInsertionSort(made.a, sortOptions, made.run)
  IN  sort(CountAndMakeRun(records, sortOptions))

\* The pagination with hasMore measured against the last position
paginateShort(records, options) ==
  LET offset == IF Truthy(options.offset) THEN options.offset.v ELSE 0
      limit == options.limit
      totalRecords == Len(records)
  IN  [records |-> IF Truthy(limit) THEN Slice(records, offset, offset + limit.v)
                   ELSE Slice(records, offset, totalRecords),
       totalCount |-> totalRecords,
       hasMore |-> IF Truthy(limit) THEN offset + limit.v < totalRecords - 1 ELSE FALSE]

\* The pagination of executeQuery
paginate(records, options) ==
  LET offset == IF Truthy(options.offset) THEN options.offset.v ELSE 0
      limit == options.limit
      totalRecords == Len(records)
  IN  [records |-> IF Truthy(limit) THEN Slice(records, offset, offset + limit.v)
                   ELSE Slice(records, offset, totalRecords),
       totalCount |-> totalRecords,
       hasMore |-> IF Truthy(limit) THEN offset + limit.v < totalRecords ELSE FALSE]

\* executeQuery: the engine after the call and what the call returns; `sorted` is
\* the record list before pagination and `paths` how each filter was resolved
executeQuery(engine, disk, filters, options) ==
  LET return(loaded, paths, sorted, page) ==
        [engine |-> loaded.engine,
         result |-> [ok |-> TRUE,
                     records |-> page.records,
                     totalCount |-> page.totalCount,
                     hasMore |-> page.hasMore,
                     sorted |-> sorted,
                     paths |-> paths]]
      cut(loaded, paths, sorted) == return(loaded, paths, sorted, paginate(sorted, options))
      sort(loaded, paths) ==
        cut(loaded, paths,
            IF Len(options.sort) > 0 THEN applySorting(loaded.records, options.sort)
            ELSE loaded.records)
      load(resolved) ==
        sort(LoadCandidates(resolved.engine, disk,
                            IF resolved.candidates.none THEN getAllRecordIds(disk)
                            ELSE resolved.candidates.ids,
                            1, filters, <<>>),
             resolved.paths)
      resolve(init) ==
        IF ~init.ok
        THEN [engine |-> init.engine, result |-> [ok |-> FALSE]]
        ELSE load(ResolveFilters(init.engine, disk, filters, 1, NoCandidates, <<>>))
  IN  resolve(ensureInitialized(engine, disk))

\* getRecord
getRecord(engine, disk, id) ==
  LET return(loaded) ==
        [engine |-> loaded.engine, result |-> [ok |-> TRUE, record |-> loaded.record]]
      load(init) ==
        IF ~init.ok
        THEN [engine |-> init.engine, result |-> [ok |-> FALSE]]
        ELSE return(loadRecord(init.engine, disk, id))
  IN  load(ensureInitialized(engine, disk))

\* ------------------------------------------------------------------------
\* Calls that run concurrently on one engine
\*
\* A call runs from one loader await to the next without interruption; at an
\* await any other call may run. `pc` names the await a call stands at:
\*   init        Promise.all([loadMetadata(), loadSchema()]) of init
\*   marked      init resumed: `this.initialized = true` comes next
\*   index       dataLoader.loadIndex of loadIndex
\*   scanIds     dataLoader.loadPrimaryIndex of the scan's getAllRecordIds
\*   scanRecord  dataLoader.loadRecord of the scan's loadRecord
\*   allIds      dataLoader.loadPrimaryIndex of executeQuery's getAllRecordIds
\*   record      dataLoader.loadRecord of the load loop's loadRecord
\*   getRecord   dataLoader.loadRecord of getRecord's loadRecord
\* and, between awaits, the loop the call is in: start, filters, scan, load, get.
\* `awaited` lists the awaits the call has stood at, in order.

\* A cache that never answers
NeverCached(cache, key) == FALSE

\* this.indexCache.has(field) / this.recordCache.has(recordId)
Cached(cache, key) == key \in DOMAIN cache

\* The code of a call from where it stands up to its next loader await or to
\* its return; a cached index or record, and an id no file lists, need no await
RECURSIVE Run(_, _, _)
Run(job, engine, disk) ==
  LET stop(pc) ==
        [job |-> [job EXCEPT !.pc = pc, !.awaited = Append(@, pc)], engine |-> engine]
      return(result) ==
        [job |-> [job EXCEPT !.pc = "done", !.result = result], engine |-> engine]
      narrow(got, path) ==
        Run([job EXCEPT !.pc = "filters",
                         !.k = @ + 1,
                         !.none = FALSE,
                         !.ids = IF job.none THEN got ELSE Intersection(job.ids, got),
                         !.paths = Append(@, path)],
            engine, disk)
      scanned(record) ==
        Run([job EXCEPT !.pc = "scan",
                         !.j = @ + 1,
                         !.found = IF Truthy(record)
                                        /\ recordMatchesFilter(record, job.filters[job.k])
                                   THEN Append(@, job.all[job.j])
                                   ELSE @],
            engine, disk)
      loaded(record) ==
        Run([job EXCEPT !.pc = "load",
                         !.j = @ + 1,
                         !.records = IF Truthy(record)
                                          /\ recordMatchesFilters(record, job.filters)
                                     THEN Append(@, record)
                                     ELSE @],
            engine, disk)
      got(record) == return([ok |-> TRUE, record |-> record])
      cut(sorted, page) ==
        return([ok |-> TRUE,
                records |-> page.records,
                totalCount |-> page.totalCount,
                hasMore |-> page.hasMore,
                sorted |-> sorted,
                paths |-> job.paths])
      sort(sorted) == cut(sorted, paginate(sorted, job.options))
      loadRecord_(recordId, then(_), await) ==
        IF Cached(engine.recordCache, recordId) THEN then(engine.recordCache[recordId])
        ELSE IF ~Readable(engine.splitMetadata) THEN return([ok |-> FALSE])
        ELSE IF FindFileInfo(engine.splitMetadata, recordId) = NoFile THEN then(Null)
        ELSE stop(await)
  IN  CASE job.pc = "start" ->
             Run([job EXCEPT !.pc = IF job.op = "getRecord" THEN "get" ELSE "filters"],
                 engine, disk)
        [] job.pc = "filters" ->
             IF job.k <= Len(job.filters) /\ (job.none \/ Len(job.ids) > 0)
             THEN IF Cached(engine.indexCache, job.filters[job.k].field)
                  THEN narrow(getRecordIdsFromIndex(
                                engine.indexCache[job.filters[job.k].field],
                                job.filters[job.k]),
                              "index")
                  ELSE stop("index")
             ELSE IF job.none THEN stop("allIds")
             ELSE Run([job EXCEPT !.pc = "load", !.j = 1], engine, disk)
        [] job.pc = "scan" ->
             IF job.j > Len(job.all) THEN narrow(job.found, "scan")
             ELSE loadRecord_(job.all[job.j], scanned, "scanRecord")
        [] job.pc = "load" ->
             IF job.j > Len(job.ids)
             THEN sort(IF Len(job.options.sort) > 0
                       THEN applySorting(job.records, job.options.sort)
                       ELSE job.records)
             ELSE loadRecord_(job.ids[job.j], loaded, "record")
        [] job.pc = "get" -> loadRecord_(job.id, got, "getRecord")

\* ensureInitialized that sets `initialized` when it issues the loads of init
EnterMarked(job, engine, disk) ==
  IF engine.initialized THEN Run(job, engine, disk)
  ELSE [job |-> [job EXCEPT !.pc = "init", !.awaited = Append(@, "init")],
        engine |-> [engine EXCEPT !.initialized = TRUE]]

\* ensureInitialized of a call that has just been made: with the engine
\* initialized the call runs on, else it issues the loads of init
Enter(job, engine, disk) ==
  IF engine.initialized THEN Run(job, engine, disk)
  ELSE [job |-> [job EXCEPT !.pc = "init", !.awaited = Append(@, "init")], engine |-> engine]

\* The loader answers the await a call stands at: what the continuation assigns
\* (metadata and manifest, the schema, `initialized`, a cache entry), and the
\* call's code up to its next await
Resume(job, engine, disk) ==
  LET cacheRecord(recordId, record) ==
        IF Truthy(record) THEN [engine EXCEPT !.recordCache = WriteFile(@, recordId, record)]
        ELSE engine
      fetch(recordId) ==
        LoaderLoadRecord(disk, recordId, FindFileInfo(engine.splitMetadata, recordId),
                         engine.splitMetadata)
      orNull(record) == IF Truthy(record) THEN record ELSE Null
      resumed(recordId, pc, field, record) ==
        Run([job EXCEPT !.pc = pc,
                         !.j = @ + 1,
                         ![field] = IF field = "found"
                                    THEN (IF Truthy(record)
                                             /\ recordMatchesFilter(record, job.filters[job.k])
                                          THEN Append(@, recordId) ELSE @)
                                    ELSE (IF Truthy(record)
                                             /\ recordMatchesFilters(record, job.filters)
                                          THEN Append(@, record) ELSE @)],
            cacheRecord(recordId, record), disk)
      indexed(indexData) ==
        IF Readable(indexData)
        THEN Run([job EXCEPT !.pc = "filters",
                              !.k = @ + 1,
                              !.none = FALSE,
                              !.ids = IF job.none
                                      THEN getRecordIdsFromIndex(indexData, job.filters[job.k])
                                      ELSE Intersection(job.ids,
                                             getRecordIdsFromIndex(indexData,
                                                                   job.filters[job.k])),
                              !.paths = Append(@, "index")],
                 [engine EXCEPT !.indexCache =
                    WriteFile(@, job.filters[job.k].field, indexData)],
                 disk)
        ELSE [job |-> [job EXCEPT !.pc = "scanIds", !.awaited = Append(@, "scanIds")],
              engine |-> engine]
      fetched(record) ==
        [job |-> [job EXCEPT !.pc = "done",
                               !.result = [ok |-> TRUE, record |-> orNull(record)]],
         engine |-> cacheRecord(job.id, record)]
  IN  CASE job.pc = "init" ->
             IF ~Readable(disk.metadata) \/ ~Readable(disk.split)
             THEN [job |-> [job EXCEPT !.pc = "done", !.result = [ok |-> FALSE]],
                   engine |-> [engine EXCEPT !.schema = LoaderLoadSchema(disk)]]
             ELSE [job |-> [job EXCEPT !.pc = "marked"],
                   engine |-> [engine EXCEPT !.metadata = disk.metadata,
                                             !.splitMetadata = disk.split,
                                             !.schema = LoaderLoadSchema(disk)]]
        [] job.pc = "marked" ->
             Run([job EXCEPT !.pc = "start"], [engine EXCEPT !.initialized = TRUE], disk)
        [] job.pc = "index" ->
             indexed(LoaderLoadIndex(disk, job.filters[job.k].field))
        [] job.pc = "scanIds" ->
             Run([job EXCEPT !.pc = "scan", !.all = getAllRecordIds(disk),
                              !.j = 1, !.found = <<>>],
                 engine, disk)
        [] job.pc = "scanRecord" ->
             resumed(job.all[job.j], "scan", "found", fetch(job.all[job.j]))
        [] job.pc = "allIds" ->
             Run([job EXCEPT !.pc = "load", !.none = FALSE,
                              !.ids = getAllRecordIds(disk), !.j = 1],
                 engine, disk)
        [] job.pc = "record" ->
             resumed(job.ids[job.j], "load", "records", fetch(job.ids[job.j]))
        [] job.pc = "getRecord" -> fetched(fetch(job.id))

\* ------------------------------------------------------------------------
\* The inputs the model draws from

AgeField == <<"a", "g", "e">>

StatusField == <<"s", "t", "a", "t", "u", "s">>

TagsField == <<"t", "a", "g", "s">>

NameField == <<"n", "a", "m", "e">>

\* What a record holds besides its key, in property order: two records that tie
\* on age, one whose age is null, one without an age
Bodies ==
  { << <<AgeField, Num(1)>>, <<StatusField, Str(<<"x">>)>>, <<TagsField, Arr(<<Str(<<"p">>)>>)>> >>,
    << <<AgeField, Num(3)>>, <<StatusField, Str(<<"x">>)>>,
       <<TagsField, Arr(<<Str(<<"p">>), Str(<<"q">>)>>)>> >>,
    << <<AgeField, Num(1)>>, <<StatusField, Str(<<"x", "y">>)>>, <<TagsField, Arr(<<>>)>> >>,
    << <<AgeField, Null>>, <<StatusField, Str(<<"x">>)>>, <<TagsField, Arr(<<Str(<<"q">>)>>)>> >>,
    << <<StatusField, Str(<<"x">>)>>, <<TagsField, Arr(<<Str(<<"p">>)>>)>> >> }

\* The key of the i-th record of a query collection: "a", "b", "c", ...
PositionalId(i) == Str(<<SubSeq(<<"a", "b", "c", "d", "e", "f">>, i, i)[1]>>)

\* Collections of up to MaxRecords records with distinct string keys
QueryCollections ==
  UNION {{[i \in 1..n |-> Obj(<< <<PrimaryKeyField, PositionalId(i)>> >> \o bodies[i])] :
            bodies \in [1..n -> Bodies]} : n \in 0..MaxRecords}

\* Records that differ in their key: two strings with one sanitized form, a
\* number, null, an own property holding undefined, and no key at all
KeyValues == {Str(<<"a">>), Str(<<"a", "!">>), Str(<<"b">>), Num(1), Null, Undefined}

KeyRecords ==
  {Obj(<< <<PrimaryKeyField, k>>, <<NameField, Str(<<"n">>)>> >>) : k \in KeyValues}
    \cup {Obj(<< <<NameField, Str(<<"n">>)>> >>)}

KeyCollections == UNION {[1..n -> KeyRecords] : n \in 0..MaxRecords}

DefaultOptions ==
  [primaryKeyField |-> PrimaryKeyField,
   batchSize |-> Num(1),
   useSubdirectories |-> TRUE,
   indexFields |-> Undefined,
   maxIndexValues |-> DefaultMaxIndexValues]

\* Individual files with every path indexed, or batches of two with only
\* `status` indexed
BuildOptions ==
  { DefaultOptions,
    [DefaultOptions EXCEPT !.batchSize = Num(2), !.indexFields = Arr(<<StatusField>>)] }

KeyBuildOptions == {[DefaultOptions EXCEPT !.batchSize = Num(b)] : b \in {1, 2}}

Filter(field, operator, value) == [field |-> field, operator |-> operator, value |-> value]

SingleFilters ==
  { Filter(StatusField, "EQUALS", Str(<<"x">>)),
    Filter(StatusField, "NOT_EQUALS", Str(<<"x">>)),
    Filter(StatusField, "STARTS_WITH", Str(<<"x">>)),
    Filter(StatusField, "ENDS_WITH", Str(<<"y">>)),
    Filter(StatusField, "CONTAINS", Str(<<"y">>)),
    Filter(StatusField, "IN", Arr(<<Str(<<"x", "y">>), Str(<<"z">>)>>)),
    Filter(AgeField, "EQUALS", Num(1)),
    Filter(AgeField, "NOT_EQUALS", Num(1)),
    Filter(AgeField, "GREATER_THAN", Num(1)),
    Filter(AgeField, "LESS_THAN", Num(3)),
    Filter(AgeField, "GREATER_THAN_OR_EQUAL", Num(3)),
    Filter(AgeField, "LESS_THAN_OR_EQUAL", Num(1)),
    Filter(TagsField, "CONTAINS", Str(<<"p">>)),
    Filter(TagsField, "EQUALS", Str(<<"p">>)),
    Filter(TagsField, "NOT_EQUALS", Str(<<"p">>)) }

PairFilters ==
  { Filter(StatusField, "EQUALS", Str(<<"x">>)),
    Filter(AgeField, "GREATER_THAN", Num(1)),
    Filter(AgeField, "LESS_THAN_OR_EQUAL", Num(1)),
    Filter(TagsField, "CONTAINS", Str(<<"p">>)) }

SortKey(field, direction) == [field |-> field, direction |-> direction]

Sorts ==
  { <<>>,
    <<SortKey(AgeField, "asc")>>,
    <<SortKey(StatusField, "desc"), SortKey(AgeField, "desc")>> }

NoOptions == [limit |-> Undefined, offset |-> Undefined, sort |-> <<>>]

Page(limit, offset) == [NoOptions EXCEPT !.limit = limit, !.offset = offset]

\* limit unset, 0, 1 or 2, from the start or from offset 1
Paginations ==
  { Page(Undefined, Undefined), Page(Undefined, Num(1)), Page(Num(0), Undefined),
    Page(Num(1), Undefined), Page(Num(2), Num(0)), Page(Num(2), Num(1)) }

\* The executeQuery calls of the model: every filter alone and the pairs without
\* options, and the sorted and paginated calls over no filter or one filter
QueryInputs ==
  {[filters |-> <<f>>, options |-> NoOptions] : f \in SingleFilters}
    \cup {[filters |-> <<f, g>>, options |-> NoOptions] : f \in PairFilters, g \in PairFilters}
    \cup {[filters |-> fs, options |-> [p EXCEPT !.sort = s]] :
            fs \in {<<>>, <<Filter(StatusField, "EQUALS", Str(<<"x">>))>>},
            s \in Sorts,
            p \in Paginations}

\* The ids getRecord is called with: every key of the collections and one more
ProbeIds == (KeyValues \ {Undefined}) \cup {PositionalId(i) : i \in 1..(MaxRecords + 1)}

\* ------------------------------------------------------------------------
\* The state machine

VARIABLES
  input,     \* the record collection handed to the builder
  options,   \* the builder's options
  built,     \* "no", "ok" or "failed"
  buildError,\* what build threw, or NoError
  disk,      \* the files of the output directory
  engine,    \* the QueryEngine over that directory
  call,      \* the client's last call and what it returned
  pages,     \* the records of the pages fetched so far by a paginated query
  running    \* the calls in flight on the engine, each at its await, and the finished ones

vars == <<input, options, built, buildError, disk, engine, call, pages, running>>

NoCall == [op |-> "none"]

NoPages == [open |-> FALSE, records |-> <<>>]

InitWith(collections, buildOptions) ==
  /\ input \in collections
  /\ options \in buildOptions
  /\ built = "no"
  /\ buildError = NoError
  /\ disk = EmptyDisk
  /\ engine = NewEngine
  /\ call = NoCall
  /\ pages = NoPages
  /\ running = <<>>

Init == InitWith(QueryCollections, BuildOptions)

InitKeys == InitWith(KeyCollections, KeyBuildOptions)

\* AntipatternBuilder.build over `input`
Build ==
  /\ built = "no"
  /\ \E b \in {build(input, options)} :
       /\ built' = IF b.error = NoError THEN "ok" ELSE "failed"
       /\ buildError' = b.error
       /\ disk' = b.disk
  /\ UNCHANGED <<input, options, engine, call, pages, running>>

\* A page sequence starts with a call that sets a limit and starts at offset 0
StartsPages(query) ==
  Truthy(query.options.limit) /\ ~Truthy(query.options.offset)

\* QueryEngine.executeQuery(filters, options)
ExecuteQuery ==
  /\ built # "no"
  /\ call = NoCall
  /\ \E query \in QueryInputs :
       \E done \in {executeQuery(engine, disk, query.filters, query.options)} :
         /\ engine' = done.engine
         /\ call' = [op |-> "executeQuery",
                     filters |-> query.filters,
                     options |-> query.options,
                     result |-> done.result]
         /\ pages' = IF done.result.ok /\ StartsPages(query)
                     THEN [open |-> TRUE, records |-> done.result.records]
                     ELSE NoPages
  /\ UNCHANGED <<input, options, built, buildError, disk, running>>

\* The client's next page: the same call with offset advanced by limit, while the
\* last page was not empty and hasMore was true
NextPage ==
  /\ call.op = "executeQuery"
  /\ pages.open
  /\ call.result.ok
  /\ call.result.hasMore
  /\ Len(call.result.records) > 0
  /\ \E offset \in {IF Truthy(call.options.offset) THEN call.options.offset.v ELSE 0} :
       \E nextOptions \in {[call.options EXCEPT !.offset = Num(offset + call.options.limit.v)]} :
         \E done \in {executeQuery(engine, disk, call.filters, nextOptions)} :
           /\ engine' = done.engine
           /\ call' = [call EXCEPT !.options = nextOptions, !.result = done.result]
           /\ pages' = [pages EXCEPT !.records = @ \o done.result.records]
  /\ UNCHANGED <<input, options, built, buildError, disk, running>>

\* QueryEngine.getRecord(id)
GetRecord ==
  /\ built # "no"
  /\ call = NoCall
  /\ \E id \in ProbeIds :
       \E done \in {getRecord(engine, disk, id)} :
         /\ engine' = done.engine
         /\ call' = [op |-> "getRecord", id |-> id, result |-> done.result]
  /\ UNCHANGED <<input, options, built, buildError, disk, pages, running>>

Next == Build \/ ExecuteQuery \/ NextPage \/ GetRecord

Spec == Init /\ [][Next]_vars

NextKeys == Build \/ GetRecord

SpecKeys == InitKeys /\ [][NextKeys]_vars

\* ------------------------------------------------------------------------
\* Index files that no longer agree with the data files

\* What a field index's entries become: every entry lists every record id, or
\* every entry lists the ids of the entry after it
StaleEntries(entries, wrong, allIds) ==
  [k \in 1..Len(entries) |->
     [entries[k] EXCEPT !.recordIds =
        IF wrong = "extra" THEN allIds
        ELSE entries[(k % Len(entries)) + 1].recordIds]]

\* The field indexes of a freshly built directory are overwritten before the
\* engine reads them; data files, manifest and Primary Index stay as built
StaleIndex ==
  /\ built = "ok"
  /\ call = NoCall
  /\ disk = build(input, options).disk
  /\ \E wrong \in {"extra", "shifted"} :
       /\ disk' = [disk EXCEPT !.indexes =
                     [f \in DOMAIN disk.indexes |->
                        IF f = PrimaryIndexFile THEN disk.indexes[f]
                        ELSE [disk.indexes[f] EXCEPT !.entries =
                                StaleEntries(@, wrong, getAllRecordIds(disk))]]]
       /\ disk' # disk
  /\ UNCHANGED <<input, options, built, buildError, engine, call, pages, running>>

InitStale == InitWith(QueryCollections, {DefaultOptions})

NextStale == Build \/ StaleIndex \/ ExecuteQuery \/ NextPage

SpecStale == InitStale /\ [][NextStale]_vars

\* ------------------------------------------------------------------------
\* Output directories that lost a file or hold one that does not parse

\* A directory without the file at path
RemoveFile(dir, path) == [p \in (DOMAIN dir) \ {path} |-> dir[p]]

\* A shard that still parses but no longer holds its records
Emptied(content) == IF content.t = "array" THEN Arr(<<>>) ELSE Obj(<<>>)

\* What can happen to one file of a built directory: metadata.json,
\* split-metadata.json, a field index or a shard goes missing or stops parsing, a
\* schema.json that does not parse appears, a shard loses its records
Faults(d) ==
  {[file |-> f, path |-> <<>>, kind |-> k] :
     f \in {"metadata", "split"}, k \in {"missing", "unreadable"}}
    \cup {[file |-> "schema", path |-> <<>>, kind |-> "unreadable"]}
    \cup {[file |-> "index", path |-> p, kind |-> k] :
            p \in (DOMAIN d.indexes) \ {PrimaryIndexFile}, k \in {"missing", "unreadable"}}
    \cup {[file |-> "data", path |-> p, kind |-> k] :
            p \in DOMAIN d.data, k \in {"missing", "unreadable", "emptied"}}

\* The output directory after the fault
Faulty(d, fault) ==
  LET file == IF fault.kind = "missing" THEN NoFile ELSE Unreadable
      files(dir) ==
        CASE fault.kind = "missing" -> RemoveFile(dir, fault.path)
          [] fault.kind = "unreadable" -> WriteFile(dir, fault.path, Unreadable)
          [] OTHER -> WriteFile(dir, fault.path, Emptied(dir[fault.path]))
  IN  CASE fault.file = "metadata" -> [d EXCEPT !.metadata = file]
        [] fault.file = "split" -> [d EXCEPT !.split = file]
        [] fault.file = "schema" -> [d EXCEPT !.schema = file]
        [] fault.file = "index" -> [d EXCEPT !.indexes = files(@)]
        [] OTHER -> [d EXCEPT !.data = files(@)]

\* One fault strikes a freshly built directory before the engine has read from it
Damage ==
  /\ built = "ok"
  /\ call = NoCall
  /\ engine = NewEngine
  /\ disk = build(input, options).disk
  /\ \E fault \in Faults(disk) : disk' = Faulty(disk, fault)
  /\ UNCHANGED <<input, options, built, buildError, engine, call, pages, running>>

\* QueryEngine.init(): a rejection is what the caller is left with
InitEngine ==
  /\ built # "no"
  /\ call = NoCall
  /\ ~engine.initialized
  /\ \E init \in {ensureInitialized(engine, disk)} :
       /\ engine' = init.engine
       /\ call' = IF init.ok THEN NoCall ELSE [op |-> "init", result |-> [ok |-> FALSE]]
  /\ UNCHANGED <<input, options, built, buildError, disk, pages, running>>

\* QueryEngine.count()
Count ==
  /\ built # "no"
  /\ call = NoCall
  /\ \E init \in {ensureInitialized(engine, disk)} :
       /\ engine' = init.engine
       /\ call' = [op |-> "count",
                   result |-> IF init.ok
                              THEN [ok |-> TRUE, count |-> init.engine.metadata.totalRecords]
                              ELSE [ok |-> FALSE]]
  /\ UNCHANGED <<input, options, built, buildError, disk, pages, running>>

\* The caller of a rejected call goes on to its next call
Forget ==
  /\ call # NoCall
  /\ ~call.result.ok
  /\ call' = NoCall
  /\ pages' = NoPages
  /\ UNCHANGED <<input, options, built, buildError, disk, engine, running>>

\* Collections of fewer than MaxRecords records
InitFaults == InitWith({c \in QueryCollections : Len(c) < MaxRecords}, BuildOptions)

NextFaults ==
  Build \/ Damage \/ InitEngine \/ ExecuteQuery \/ NextPage \/ GetRecord \/ Count \/ Forget

SpecFaults == InitFaults /\ [][NextFaults]_vars

\* The same over records that differ in their key
InitKeyFaults == InitWith({c \in KeyCollections : Len(c) < MaxRecords}, KeyBuildOptions)

NextKeyFaults == Build \/ Damage \/ InitEngine \/ GetRecord

SpecKeyFaults == InitKeyFaults /\ [][NextKeyFaults]_vars

\* ------------------------------------------------------------------------
\* CONTAINS queries over records whose `tags` is an array of strings and numbers

ContainsCollections ==
  LET tagLists == { <<Str(<<"p">>)>>,
                    <<Num(1), Str(<<"p", "q">>)>>,
                    <<Str(<<"q">>), Num(2)>>,
                    <<>> }
  IN  UNION {{[i \in 1..n |-> Obj(<< <<PrimaryKeyField, PositionalId(i)>>,
                                    <<TagsField, Arr(tags[i])>> >>)] :
                tags \in [1..n -> tagLists]} : n \in 0..MaxRecords}

\* The values looked for: strings, numbers, a boolean
ContainsValues == {Str(<<"p">>), Str(<<"q">>), Str(<<"p", "q">>), Num(1), Num(3), Bool(TRUE)}

\* QueryEngine.executeQuery([{field: 'tags', operator: CONTAINS, value: x}])
QueryContains ==
  /\ built # "no"
  /\ call = NoCall
  /\ \E x \in ContainsValues :
       \E filters \in {<<Filter(TagsField, "CONTAINS", x)>>} :
         \E done \in {executeQuery(engine, disk, filters, NoOptions)} :
           /\ engine' = done.engine
           /\ call' = [op |-> "executeQuery",
                       filters |-> filters,
                       options |-> NoOptions,
                       result |-> done.result]
  /\ UNCHANGED <<input, options, built, buildError, disk, pages, running>>

InitContains == InitWith(ContainsCollections, BuildOptions)

NextContains == Build \/ QueryContains

SpecContains == InitContains /\ [][NextContains]_vars

\* ------------------------------------------------------------------------
\* Queries without filters, and count(), over records that differ in their key

\* QueryEngine.executeQuery([], {})
QueryAll ==
  /\ built # "no"
  /\ call = NoCall
  /\ \E done \in {executeQuery(engine, disk, <<>>, NoOptions)} :
       /\ engine' = done.engine
       /\ call' = [op |-> "executeQuery",
                   filters |-> <<>>,
                   options |-> NoOptions,
                   result |-> done.result]
  /\ UNCHANGED <<input, options, built, buildError, disk, pages, running>>

NextKeyQueries == Build \/ QueryAll \/ Count

SpecKeyQueries == InitKeys /\ [][NextKeyQueries]_vars

\* ------------------------------------------------------------------------
\* Builds under every combination of threshold and allow-list

\* maxIndexValues of one, of two or the default; no allow-list, an empty one,
\* one path, two paths
IndexBuildOptions ==
  {[DefaultOptions EXCEPT !.maxIndexValues = m, !.indexFields = f] :
     m \in {1, 2, DefaultMaxIndexValues},
     f \in {Undefined, Arr(<<>>), Arr(<<StatusField>>), Arr(<<TagsField, AgeField>>)}}

InitIndex == InitWith(QueryCollections, IndexBuildOptions)

NextIndex == Build

SpecIndex == InitIndex /\ [][NextIndex]_vars

\* ------------------------------------------------------------------------
\* Concurrent calls over a built directory

\* The calls made concurrently: queries resolved by index or by scan, a sorted
\* first page of everything, and getRecord of the first two keys
RaceInputs ==
  {[op |-> "executeQuery", filters |-> q.filters, options |-> q.options, id |-> Null] :
     q \in {[filters |-> <<Filter(StatusField, "EQUALS", Str(<<"x">>))>>, options |-> NoOptions],
            [filters |-> <<Filter(TagsField, "CONTAINS", Str(<<"p">>)),
                           Filter(StatusField, "EQUALS", Str(<<"x">>))>>,
             options |-> NoOptions],
            [filters |-> <<>>,
             options |-> [Page(Num(1), Undefined) EXCEPT !.sort = <<SortKey(AgeField, "asc")>>]]}}
    \cup {[op |-> "getRecord", filters |-> <<>>, options |-> NoOptions, id |-> PositionalId(i)] :
            i \in 1..2}

MaxCalls == 2

\* A client calls executeQuery or getRecord while earlier calls may be in flight
StartCall ==
  /\ built = "ok"
  /\ Len(running) < MaxCalls
  /\ \E c \in RaceInputs :
       \E entered \in {Enter([op |-> c.op, filters |-> c.filters, options |-> c.options,
                              id |-> c.id, pc |-> "start", k |-> 1, none |-> TRUE,
                              ids |-> <<>>, paths |-> <<>>, all |-> <<>>, j |-> 1,
                              found |-> <<>>, records |-> <<>>, awaited |-> <<>>,
                              result |-> [ok |-> FALSE]],
                             engine, disk)} :
         /\ running' = Append(running, entered.job)
         /\ engine' = entered.engine
  /\ UNCHANGED <<input, options, built, buildError, disk, call, pages>>

\* The loader answers the await of one of the calls in flight
ResumeCall ==
  /\ \E i \in 1..Len(running) :
       /\ running[i].pc # "done"
       /\ \E resumed \in {Resume(running[i], engine, disk)} :
            /\ running' = [running EXCEPT ![i] = resumed.job]
            /\ engine' = resumed.engine
  /\ UNCHANGED <<input, options, built, buildError, disk, call, pages>>

InitRace == InitWith({c \in QueryCollections : Len(c) < MaxRecords}, BuildOptions)

NextRace == Build \/ StartCall \/ ResumeCall

SpecRace == InitRace /\ [][NextRace]_vars

\* ------------------------------------------------------------------------
\* Records with nested shapes: arrays of objects, nested objects, and a key
\* that ends with an underscore

ItemsField == <<"i", "t", "e", "m", "s">>

KField == <<"k">>

MetaField == <<"m", "e", "t", "a">>

\* `items` as an array of two objects, of one object, as a nested object, as a
\* number; a nested `meta`; a nested `items_`
ShapeCollections ==
  LET k(n) == Obj(<< <<KField, Num(n)>> >>)
      shapes == { <<ItemsField, Arr(<<k(1), k(2)>>)>>,
                  <<ItemsField, Arr(<<k(2)>>)>>,
                  <<ItemsField, k(1)>>,
                  <<ItemsField, Num(1)>>,
                  <<MetaField, k(1)>>,
                  <<ItemsField \o <<"_">>, k(2)>> }
  IN  UNION {{[i \in 1..n |-> Obj(<< <<PrimaryKeyField, PositionalId(i)>>, shape[i] >>)] :
                shape \in [1..n -> shapes]} : n \in 0..MaxRecords}

\* The paths asked for: k of `items` with and without the [] the builder
\* writes, k of `meta`, and `items` itself
ShapeFilters ==
  {Filter(path, "EQUALS", Num(n)) :
     path \in {ItemsField \o <<".">> \o KField,
               ItemsField \o <<"[", "]", ".">> \o KField,
               MetaField \o <<".">> \o KField,
               ItemsField},
     n \in {1, 2}}

\* QueryEngine.executeQuery with one EQUALS filter on a path
QueryPath ==
  /\ built # "no"
  /\ call = NoCall
  /\ \E f \in ShapeFilters :
       \E done \in {executeQuery(engine, disk, <<f>>, NoOptions)} :
         /\ engine' = done.engine
         /\ call' = [op |-> "executeQuery",
                     filters |-> <<f>>,
                     options |-> NoOptions,
                     result |-> done.result]
  /\ UNCHANGED <<input, options, built, buildError, disk, pages, running>>

InitShapes == InitWith(ShapeCollections, {DefaultOptions})

NextShapes == Build \/ QueryPath

SpecShapes == InitShapes /\ [][NextShapes]_vars

\* ------------------------------------------------------------------------
\* Properties

\* C1. Shard round-trip: after a successful build, getRecord called with the
\* (string) id of a record of the input returns a record equal to that input
\* record, never null and never another record.
C1_ShardRoundTrip ==
  (built = "ok" /\ call.op = "getRecord" /\ call.id.t = "string")
    => \A k \in 1..Len(input) :
         Prop(input[k], options.primaryKeyField) = call.id
           => call.result.ok /\ call.result.record = input[k]

\* C2. Index/scan equivalence: a single EQUALS filter that executeQuery resolves
\* through the field's index file returns the same set of records and the same
\* totalCount as the same call over the directory with that index file removed.
C2_IndexScanEquivalence ==
  (/\ call.op = "executeQuery"
   /\ call.result.ok
   /\ Len(call.filters) = 1
   /\ call.options = NoOptions
   /\ call.filters[1].operator = "EQUALS"
   /\ call.result.paths = <<"index">>)
    => LET file == call.filters[1].field \o JsonSuffix
           without == [disk EXCEPT !.indexes =
                         [f \in (DOMAIN disk.indexes) \ {file} |-> disk.indexes[f]]]
           scanned == executeQuery(NewEngine, without, call.filters, call.options).result
       IN  /\ {call.result.records[i] : i \in 1..Len(call.result.records)}
                = {scanned.records[i] : i \in 1..Len(scanned.records)}
           /\ call.result.totalCount = scanned.totalCount

\* C3. Intersection correctness: the set of records executeQuery([p1, p2]) returns
\* without pagination is the intersection of the sets executeQuery([p1]) and
\* executeQuery([p2]) return, whether a filter is resolved by index or by scan.
C3_IntersectionCorrect ==
  (/\ call.op = "executeQuery"
   /\ call.result.ok
   /\ Len(call.filters) = 2
   /\ call.options = NoOptions)
    => LET alone(k) ==
             executeQuery(NewEngine, disk, <<call.filters[k]>>, NoOptions).result.records
           set(rs) == {rs[i] : i \in 1..Len(rs)}
       IN  set(call.result.records) = set(alone(1)) \cap set(alone(2))

\* A two-filter call, the first filter resolved by index and the second by scan,
\* that returns some records and fewer than the first filter alone
C3_Witness ==
  /\ call.op = "executeQuery"
  /\ call.result.ok
  /\ Len(call.filters) = 2
  /\ call.options = NoOptions
  /\ call.result.paths = <<"index", "scan">>
  /\ Len(call.result.records) >= 1
  /\ Len(executeQuery(NewEngine, disk, <<call.filters[1]>>, NoOptions).result.records)
       > Len(call.result.records)

\* C4. Defensive re-validation: every record executeQuery returns satisfies every
\* filter of the call when the filter is evaluated on the record itself by
\* dot-path lookup, whatever the field index files hold.
C4_Revalidated ==
  (call.op = "executeQuery" /\ call.result.ok)
    => \A i \in 1..Len(call.result.records) :
         \A k \in 1..Len(call.filters) :
           recordMatchesFilter(call.result.records[i], call.filters[k])

\* A call over overwritten index files whose index names more records than the
\* call returns
C4_Witness ==
  /\ call.op = "executeQuery"
  /\ call.result.ok
  /\ built = "ok"
  /\ disk # build(input, options).disk
  /\ Len(call.filters) = 1
  /\ call.options = NoOptions
  /\ call.result.paths = <<"index">>
  /\ Len(call.result.records) >= 1
  /\ Len(getRecordIdsFromIndex(disk.indexes[call.filters[1].field \o JsonSuffix],
                               call.filters[1]))
       > Len(call.result.records)

\* C5. Uniqueness of the absent key: for a non-empty collection whose records all
\* own the primary-key field (and whose other keys are distinct), the build
\* succeeds when exactly one record has a null or undefined key, and throws the
\* duplicate-key error citing the absent value when two or more have.
C5_AbsentKeyUnique ==
  LET pk == options.primaryKeyField
      n == Len(input)
      key(i) == Prop(input[i], pk)
      absent == {i \in 1..n : key(i).t \in {"null", "undefined"}}
      othersDistinct == \A i, j \in (1..n) \ absent : i # j => key(i) # key(j)
  IN  (/\ built # "no"
       /\ n > 0
       /\ \A i \in 1..n : HasOwn(input[i], pk)
       /\ othersDistinct)
        => /\ Cardinality(absent) = 1 => built = "ok"
           /\ Cardinality(absent) >= 2 =>
                /\ built = "failed"
                /\ buildError.kind = "DuplicateKey"
                /\ buildError.value \in {JsString(Null), JsString(Undefined)}

\* C6. Build-time validation outcomes: the build throws 'No records to split.'
\* for an empty collection; otherwise 'All records must have a "<pk>" field.' when
\* some record does not own the key; otherwise 'Duplicate primary key value
\* found: <v>' with <v> the key of the first record, in input order, whose key an
\* earlier record has; it succeeds when none of the three holds, in both modes.
C6_ValidationOutcomes ==
  LET pk == options.primaryKeyField
      n == Len(input)
      key(i) == Prop(input[i], pk)
      lacks == \E i \in 1..n : ~HasOwn(input[i], pk)
      repeats == {i \in 1..n : \E j \in 1..(i - 1) : key(j) = key(i)}
      first == CHOOSE i \in repeats : \A j \in repeats : i <= j
  IN  built # "no"
        => /\ (built = "ok") = (buildError = NoError)
           /\ n = 0 => buildError = [kind |-> "NoRecords"]
           /\ (n > 0 /\ lacks) => buildError = [kind |-> "MissingKey", field |-> pk]
           /\ (n > 0 /\ ~lacks /\ repeats # {})
                => buildError = [kind |-> "DuplicateKey", value |-> JsString(key(first))]
           /\ (n > 0 /\ ~lacks /\ repeats = {}) => built = "ok"

\* A batch-mode build that fails on its third record, whose key repeats
C6_Witness ==
  /\ built = "failed"
  /\ buildError.kind = "DuplicateKey"
  /\ IsBatchMode(options)
  /\ Len(input) = 3
  /\ Prop(input[1], options.primaryKeyField) # Prop(input[2], options.primaryKeyField)

\* C7. Pagination result: executeQuery returns the sorted, filtered list with
\* offset applied and then limit (everything from offset when no limit is set);
\* totalCount is the length of that list; hasMore is true exactly when a limit is
\* set and offset + limit < totalCount.
C7_PaginationResult ==
  (call.op = "executeQuery" /\ call.result.ok)
    => LET full == call.result.sorted
           limit == call.options.limit
           limitSet == limit.t = "number"
           offset == IF call.options.offset.t = "number" THEN call.options.offset.v ELSE 0
       IN  /\ call.result.records =
                [k \in 1..(IF limitSet /\ offset + limit.v < Len(full)
                           THEN limit.v
                           ELSE IF offset < Len(full) THEN Len(full) - offset ELSE 0)
                   |-> full[offset + k]]
           /\ call.result.totalCount = Len(full)
           /\ call.result.hasMore = (limitSet /\ offset + limit.v < Len(full))

\* C8. Pagination covers the result: the pages of limit k >= 1 at offsets 0, k,
\* 2k, ..., fetched until a page is empty or hasMore is false, concatenate to the
\* unpaginated result of the same filters and sort.
C8_PagesCoverResult ==
  (/\ pages.open
   /\ call.op = "executeQuery"
   /\ call.result.ok
   /\ (~call.result.hasMore \/ Len(call.result.records) = 0))
    => pages.records =
         executeQuery(NewEngine, disk, call.filters,
                      [NoOptions EXCEPT !.sort = call.options.sort]).result.records

\* Three pages of one record each, of a sorted query, the last with hasMore false
C8_Witness ==
  /\ pages.open
  /\ call.op = "executeQuery"
  /\ call.result.ok
  /\ ~call.result.hasMore
  /\ call.options.limit = Num(1)
  /\ call.options.offset = Num(2)
  /\ Len(call.options.sort) > 0
  /\ Len(pages.records) = 3

\* C9. Sort order: in the pre-pagination result of a call with sort keys, two
\* records whose values at the first key where they differ are both numbers or
\* both strings stand in that key's order: the smaller first for asc, the larger
\* first for desc.
C9_SortOrder ==
  (call.op = "executeQuery" /\ call.result.ok /\ Len(call.options.sort) > 0)
    => LET rs == call.result.sorted
           keys == call.options.sort
           val(r, k) == getNestedValue(r, keys[k].field)
           comparable(x, y) == x.t = y.t /\ x.t \in {"number", "string"}
           smaller(x, y) == IF x.t = "number" THEN x.v < y.v ELSE StringLess(x.v, y.v)
       IN  \A i, j \in 1..Len(rs) :
             i < j =>
               \A k \in 1..Len(keys) :
                 (/\ val(rs[i], k) # val(rs[j], k)
                  /\ \A h \in 1..(k - 1) : val(rs[i], h) = val(rs[j], h)
                  /\ comparable(val(rs[i], k), val(rs[j], k)))
                   => IF keys[k].direction = "desc"
                      THEN smaller(val(rs[j], k), val(rs[i], k))
                      ELSE smaller(val(rs[i], k), val(rs[j], k))

\* C10. Sort stability and input-order independence: under a sort by A then B,
\* two records with equal A and different B values (both numbers or both
\* strings) stand in B-order in the pre-pagination result, and stand in the same
\* order when the database is built from the input with the two swapped.
C10_StableAndOrderIndependent ==
  (/\ call.op = "executeQuery"
   /\ call.result.ok
   /\ call.filters = <<>>
   /\ Len(call.options.sort) = 2)
    => LET keys == call.options.sort
           A(r) == getNestedValue(r, keys[1].field)
           B(r) == getNestedValue(r, keys[2].field)
           comparable(x, y) == x.t = y.t /\ x.t \in {"number", "string"}
           smaller(x, y) == IF x.t = "number" THEN x.v < y.v ELSE StringLess(x.v, y.v)
           leads(r, q) == IF keys[2].direction = "desc"
                          THEN smaller(B(q), B(r))
                          ELSE smaller(B(r), B(q))
           pos(rs, r) == CHOOSE p \in 1..Len(rs) : rs[p] = r
           swapped(i, j) ==
             [k \in 1..Len(input) |->
                IF k = i THEN input[j] ELSE IF k = j THEN input[i] ELSE input[k]]
           other(i, j) ==
             executeQuery(NewEngine, build(swapped(i, j), options).disk,
                          call.filters, call.options).result.sorted
       IN  \A i, j \in 1..Len(input) :
             (/\ i < j
              /\ A(input[i]) = A(input[j])
              /\ B(input[i]) # B(input[j])
              /\ comparable(B(input[i]), B(input[j])))
               => LET first == IF leads(input[i], input[j]) THEN input[i] ELSE input[j]
                      second == IF leads(input[i], input[j]) THEN input[j] ELSE input[i]
                  IN  /\ pos(call.result.sorted, first) < pos(call.result.sorted, second)
                      /\ pos(other(i, j), first) < pos(other(i, j), second)

\* C11. getRecord with a string id on an initialized engine never raises; it
\* returns null exactly when the id is not listed in the manifest or its shard
\* (the first file that lists it) cannot be read, the input record with that id
\* otherwise, and a null result leaves the engine as it was.
C11_GetRecordTotal ==
  [][LET listedIn(id) ==
           {k \in 1..Len(disk.split.files) :
              ArrayIncludes(disk.split.files[k].recordIds, id)}
         shardReadable(id) ==
           \E k \in listedIn(id) :
             /\ \A j \in listedIn(id) : k <= j
             /\ Readable(ReadFile(disk.data, disk.split.files[k].filename))
         inputRecords(id) ==
           {JsonRoundTrip(input[i]) :
              i \in {j \in 1..Len(input) :
                       StrictEquals(Prop(input[j], options.primaryKeyField), id)}}
     IN  (GetRecord /\ engine.initialized /\ call'.id.t = "string") =>
           /\ call'.result.ok
           /\ (call'.result.record = Null) <=>
                (listedIn(call'.id) = {} \/ ~shardReadable(call'.id))
           /\ call'.result.record # Null => call'.result.record \in inputRecords(call'.id)
           /\ call'.result.record = Null => engine' = engine]_vars

C13_RecordFailureLocal ==
  LET held(r) ==
        \E p \in DOMAIN disk.data :
          \/ disk.data[p] = r
          \/ /\ disk.data[p].t = "array"
             /\ \E k \in 1..Len(disk.data[p].v) : disk.data[p].v[k] = r
      expected == {r \in {JsonRoundTrip(input[i]) : i \in 1..Len(input)} :
                     recordMatchesFilters(r, call.filters) /\ held(r)}
  IN  (/\ call.op = "executeQuery"
       /\ Readable(disk.metadata)
       /\ Readable(disk.split)
       /\ disk.data # build(input, options).disk.data)
      => /\ call.result.ok
         /\ {call.result.sorted[k] : k \in 1..Len(call.result.sorted)} = expected
         /\ call.result.totalCount = Cardinality(expected)

\* C14. The engine is initialized exactly when it holds both the metadata and
\* the manifest, and holds neither and has cached nothing otherwise; while
\* metadata.json or split-metadata.json is missing or does not parse every call
\* is rejected and the engine stays uninitialized; when both load every call is
\* answered, whether or not schema.json loads.
C14_InitAllOrNothing ==
  /\ engine.initialized => Readable(engine.metadata) /\ Readable(engine.splitMetadata)
  /\ ~engine.initialized =>
       /\ engine.metadata = NoFile
       /\ engine.splitMetadata = NoFile
       /\ engine.indexCache = EmptyDir
       /\ engine.recordCache = EmptyDir
  /\ (built # "no" /\ (~Readable(disk.metadata) \/ ~Readable(disk.split))) =>
       /\ ~engine.initialized
       /\ call # NoCall => ~call.result.ok
  /\ (Readable(disk.metadata) /\ Readable(disk.split) /\ call # NoCall) =>
       /\ call.result.ok
       /\ engine.initialized

\* A query was rejected because the manifest does not parse, although the
\* metadata does
C14_Witness ==
  /\ call # NoCall
  /\ call.op = "executeQuery"
  /\ ~call.result.ok
  /\ Readable(disk.metadata)
  /\ disk.split = Unreadable

\* C15. Every field index written by generateIndexes has one entry per distinct
\* value observed at its path, scalar or scalar element of an array, and the
\* entry of a value lists, each once, exactly the ids of the records that hold
\* the value at the path, whatever their other fields hold.
C15_FieldIndexContent ==
  built = "ok" =>
    \A file \in (DOMAIN disk.indexes) \ {PrimaryIndexFile} :
      LET content(index) ==
            LET occurs(v, record) ==
                  LET among(at) ==
                        IF at.t = "array" THEN \E k \in 1..Len(at.v) : at.v[k] = v
                        ELSE at = v
                  IN  isPrimitive(v) /\ among(Prop(record, index.field))
                observed ==
                  {v \in {Prop(input[i], index.field) : i \in 1..Len(input)}
                           \cup UNION {{a.v[k] : k \in 1..Len(a.v)} :
                                         a \in {x \in {Prop(input[i], index.field) :
                                                         i \in 1..Len(input)} : x.t = "array"}} :
                     isPrimitive(v)}
            IN  /\ \A i, j \in 1..Len(index.entries) :
                     index.entries[i].value = index.entries[j].value => i = j
                /\ {index.entries[k].value : k \in 1..Len(index.entries)} = observed
                /\ \A k \in 1..Len(index.entries) :
                     /\ {index.entries[k].recordIds[j] :
                           j \in 1..Len(index.entries[k].recordIds)}
                          = {Prop(input[i], options.primaryKeyField) :
                               i \in {i \in 1..Len(input) :
                                        occurs(index.entries[k].value, input[i])}}
                     /\ \A i, j \in 1..Len(index.entries[k].recordIds) :
                          index.entries[k].recordIds[i] = index.entries[k].recordIds[j] => i = j
      IN  content(disk.indexes[file])

\* C16. A single CONTAINS filter on a field whose values are all arrays returns
\* exactly the records whose array has the filter's value as an element, and
\* the same records and totalCount as the same call over the directory without
\* the field's index file.
C16_ContainsOnArrays ==
  (/\ built = "ok"
   /\ call.op = "executeQuery"
   /\ Len(call.filters) = 1
   /\ call.filters[1].operator = "CONTAINS"
   /\ \A i \in 1..Len(input) : Prop(input[i], call.filters[1].field).t = "array")
    => LET same(scanned) ==
             /\ {call.result.records[i] : i \in 1..Len(call.result.records)}
                  = {scanned.records[i] : i \in 1..Len(scanned.records)}
             /\ call.result.totalCount = scanned.totalCount
       IN  /\ call.result.ok
           /\ {call.result.records[i] : i \in 1..Len(call.result.records)}
                = {JsonRoundTrip(input[i]) :
                     i \in {i \in 1..Len(input) :
                              ArrayIncludes(Prop(input[i], call.filters[1].field).v,
                                            call.filters[1].value)}}
           /\ call.result.totalCount = Len(call.result.records)
           /\ same(executeQuery(NewEngine,
                                [disk EXCEPT !.indexes =
                                   RemoveFile(@, call.filters[1].field \o JsonSuffix)],
                                call.filters, call.options).result)

\* C17. Over a database built from a valid collection (not empty, every record
\* owning the key field, no two records sharing a key, null and undefined being
\* one key), executeQuery without filters and without limit returns every input
\* record exactly once, and its totalCount, count(), metadata.totalRecords and
\* the manifest's totalRecords all equal the number of input records.
C17_EmptyFilterList ==
  LET key(i) == IF Prop(input[i], options.primaryKeyField) = Undefined THEN Null
                ELSE Prop(input[i], options.primaryKeyField)
      valid == /\ Len(input) > 0
               /\ \A i \in 1..Len(input) : HasOwn(input[i], options.primaryKeyField)
               /\ \A i, j \in 1..Len(input) : key(i) = key(j) => i = j
  IN  (built = "ok" /\ valid) =>
        /\ disk.metadata.totalRecords = Len(input)
        /\ disk.split.totalRecords = Len(input)
        /\ call.op = "count" => call.result.ok /\ call.result.count = Len(input)
        /\ call.op = "executeQuery" =>
             /\ call.result.ok
             /\ call.result.totalCount = Len(input)
             /\ Len(call.result.records) = Len(input)
             /\ \A i \in 1..Len(input) :
                  \E k \in 1..Len(call.result.records) :
                    call.result.records[k] = JsonRoundTrip(input[i])

\* C18. In batch mode with batch size b over a valid collection of N records the
\* build writes ceil(N/b) data files, each named once in the manifest; the j-th
\* holds, as an array in input order, the records j*b .. min((j+1)*b, N)-1, so
\* every file but the last holds b records; the recordCount values sum to N and
\* the key of every record is among the recordIds of exactly one file.
C18_BatchLayout ==
  LET b == options.batchSize.v
      n == Len(input)
      key(i) == IF Prop(input[i], options.primaryKeyField) = Undefined THEN Null
                ELSE Prop(input[i], options.primaryKeyField)
      valid == /\ n > 0
               /\ \A i \in 1..n : HasOwn(input[i], options.primaryKeyField)
               /\ \A i, j \in 1..n : key(i) = key(j) => i = j
      RECURSIVE total(_)
      total(files) == IF files = <<>> THEN 0 ELSE Head(files).recordCount + total(Tail(files))
      layout(files) ==
        /\ Len(files) = (n + b - 1) \div b
        /\ Cardinality(DOMAIN disk.data) = (n + b - 1) \div b
        /\ \A j, k \in 1..Len(files) : files[j].filename = files[k].filename => j = k
        /\ \A j \in 1..Len(files) :
             /\ files[j].filename \in DOMAIN disk.data
             /\ disk.data[files[j].filename]
                  = JsonRoundTrip(Arr(Slice(input, (j - 1) * b, j * b)))
             /\ files[j].recordCount = Len(Slice(input, (j - 1) * b, j * b))
             /\ j < Len(files) => files[j].recordCount = b
        /\ total(files) = n
        /\ \A i \in 1..n :
             Cardinality({j \in 1..Len(files) :
                            \E k \in 1..Len(files[j].recordIds) :
                              files[j].recordIds[k] = key(i)}) = 1
  IN  (built = "ok" /\ IsBatchMode(options) /\ valid) => layout(disk.split.files)

\* A valid collection of three records was split into batches of two
C18_Witness ==
  /\ built = "ok"
  /\ IsBatchMode(options)
  /\ options.batchSize = Num(2)
  /\ Len(input) = 3
  /\ Len(disk.split.files) = 2
  /\ \A i, j \in 1..3 :
       Prop(input[i], options.primaryKeyField) = Prop(input[j], options.primaryKeyField)
         => i = j

\* C19. After a successful build, a path discovered by the walk has a field index
\* file, and a descriptor in metadata.indexes, exactly when its number of
\* distinct values does not exceed maxIndexValues and, an allow-list being
\* given, the allow-list names it; no other field index is written;
\* metadata.fields lists every discovered path; the Primary Index is written
\* in every case, with one entry per record.
C19_IndexSelection ==
  built = "ok" =>
    LET policy(stats) ==
          LET allowed(stat) ==
                /\ Len(stat.values) <= options.maxIndexValues
                /\ (options.indexFields = Undefined
                      \/ stat.path \in {options.indexFields.v[k] :
                                          k \in 1..Len(options.indexFields.v)})
              file(stat) == sanitizeFieldName(stat.path) \o JsonSuffix
          IN  /\ \A i \in 1..Len(stats) :
                   /\ allowed(stats[i]) <=>
                        /\ file(stats[i]) \in DOMAIN disk.indexes
                        /\ disk.indexes[file(stats[i])].field = stats[i].path
                   /\ allowed(stats[i]) <=>
                        \E k \in 1..Len(disk.metadata.indexes) :
                          disk.metadata.indexes[k].field = stats[i].path
              /\ DOMAIN disk.indexes
                   = {PrimaryIndexFile}
                       \cup {file(stats[i]) : i \in {i \in 1..Len(stats) : allowed(stats[i])}}
              /\ Len(disk.metadata.indexes)
                   = Cardinality({i \in 1..Len(stats) : allowed(stats[i])})
              /\ {disk.metadata.fields[k] : k \in 1..Len(disk.metadata.fields)}
                   = {stats[i].path : i \in 1..Len(stats)}
              /\ Len(disk.metadata.fields) = Len(stats)
              /\ PrimaryIndexFile \in DOMAIN disk.indexes
              /\ Len(disk.indexes[PrimaryIndexFile].entries) = Len(input)
    IN  policy(FieldStats(AnalyzeAll(input, options.primaryKeyField, 1)))

\* With maxIndexValues 1 and no allow-list, `status` was indexed and the key
\* field, holding two values, was not
C19_Witness ==
  /\ built = "ok"
  /\ options.maxIndexValues = 1
  /\ options.indexFields = Undefined
  /\ Len(input) = 2
  /\ (StatusField \o JsonSuffix) \in DOMAIN disk.indexes
  /\ (PrimaryKeyField \o JsonSuffix) \notin DOMAIN disk.indexes
  /\ PrimaryIndexFile \in DOMAIN disk.indexes

\* C20. Whatever the interleaving of the calls in flight, a call that has returned
\* has returned what the same call returns when it runs alone on a fresh engine
\* over the same directory, and no step changes or removes an entry of the
\* index cache or of the record cache.
C20_BenignRace ==
  [][/\ \A i \in 1..Len(running') :
          running'[i].pc = "done" =>
            running'[i].result
              = IF running'[i].op = "getRecord"
                THEN getRecord(NewEngine, disk', running'[i].id).result
                ELSE executeQuery(NewEngine, disk', running'[i].filters,
                                  running'[i].options).result
     /\ \A f \in DOMAIN engine.indexCache :
          f \in DOMAIN engine'.indexCache /\ engine'.indexCache[f] = engine.indexCache[f]
     /\ \A r \in DOMAIN engine.recordCache :
          r \in DOMAIN engine'.recordCache /\ engine'.recordCache[r] = engine.recordCache[r]
    ]_vars

\* The second of two calls, made while the first was in flight, has returned
\* records while the first still stands at the load of a record, and both caches
\* hold entries
C20_Witness ==
  /\ Len(running) = 2
  /\ running[1].pc = "record"
  /\ running[2].pc = "done"
  /\ running[2].op = "executeQuery"
  /\ running[2].result.ok
  /\ Len(running[2].result.records) > 0
  /\ DOMAIN engine.indexCache # {}
  /\ DOMAIN engine.recordCache # {}

\* C21. A call issues DataLoader.loadIndex or DataLoader.loadRecord only for a
\* key the cache does not hold when the call reaches it, so an index or record
\* once cached is never asked of the loader again; and no step removes a cache
\* entry or maps its key to another value.
C21_CachesNeverEvicted ==
  [][/\ \A i \in 1..Len(running') :
          (i > Len(running) \/ running'[i] # running[i]) =>
            /\ running'[i].pc = "index" =>
                 running'[i].filters[running'[i].k].field \notin DOMAIN engine'.indexCache
            /\ running'[i].pc = "scanRecord" =>
                 running'[i].all[running'[i].j] \notin DOMAIN engine'.recordCache
            /\ running'[i].pc = "record" =>
                 running'[i].ids[running'[i].j] \notin DOMAIN engine'.recordCache
            /\ running'[i].pc = "getRecord" =>
                 running'[i].id \notin DOMAIN engine'.recordCache
     /\ DOMAIN engine.indexCache \subseteq DOMAIN engine'.indexCache
     /\ DOMAIN engine.recordCache \subseteq DOMAIN engine'.recordCache
     /\ \A f \in DOMAIN engine.indexCache : engine'.indexCache[f] = engine.indexCache[f]
     /\ \A r \in DOMAIN engine.recordCache : engine'.recordCache[r] = engine.recordCache[r]
    ]_vars

\* The second call, a query filtered on `status`, has returned records without
\* one await: the index and every record it needed were cached by the first
C21_Witness ==
  /\ Len(running) = 2
  /\ running[1].pc = "done"
  /\ running[2].pc = "done"
  /\ running[2].op = "executeQuery"
  /\ Len(running[2].filters) = 1
  /\ running[2].result.ok
  /\ Len(running[2].result.records) > 0
  /\ running[2].awaited = <<>>

\* C22. A query resolves its filters in the order given up to the first one
\* after which no id is in the ids of every filter so far, and no further: it
\* then loads no index of a later filter and no record in its load loop, and
\* returns no records, totalCount 0 and hasMore false; when no such filter
\* exists every filter is resolved.
C22_EarlyExit ==
  (/\ built = "ok"
   /\ call.op = "executeQuery"
   /\ call.result.ok
   /\ Len(call.filters) > 0
   /\ call.options = NoOptions)
    => LET exits(empties) ==
             IF empties = {} THEN Len(call.result.paths) = Len(call.filters)
             ELSE \E k \in empties :
                    /\ \A m \in empties : k <= m
                    /\ Len(call.result.paths) = k
                    /\ call.result.records = <<>>
                    /\ call.result.totalCount = 0
                    /\ call.result.hasMore = FALSE
                    /\ DOMAIN engine.indexCache
                         \subseteq {call.filters[m].field : m \in 1..k}
                    /\ (\A m \in 1..k : call.result.paths[m] = "index")
                         => engine.recordCache = EmptyDir
           ids(k) ==
             LET s == getRecordIdsForFilter(ensureInitialized(NewEngine, disk).engine,
                                            disk, call.filters[k]).ids
             IN  {s[i] : i \in 1..Len(s)}
       IN  exits({k \in 1..Len(call.filters) :
                    \A id \in ids(1) : \E m \in 1..k : id \notin ids(m)})

\* The first of two filters left no candidate and the second was not resolved
C22_Witness ==
  /\ built = "ok"
  /\ call.op = "executeQuery"
  /\ call.result.ok
  /\ Len(call.filters) = 2
  /\ call.filters[1].field # call.filters[2].field
  /\ call.result.paths = <<"index">>
  /\ call.result.records = <<>>
  /\ Len(input) > 0

\* C23. A query with one GREATER_THAN, LESS_THAN, GREATER_THAN_OR_EQUAL or
\* LESS_THAN_OR_EQUAL filter returns exactly the records whose value at the
\* field is a number standing in that relation to the filter's value, itself a
\* number; a record whose value is a string, a boolean, null or missing is never
\* returned, whether the filter is resolved by index or by scan.
C23_NumericComparisons ==
  (/\ built = "ok"
   /\ call.op = "executeQuery"
   /\ call.result.ok
   /\ Len(call.filters) = 1
   /\ call.options = NoOptions
   /\ call.filters[1].operator \in {"GREATER_THAN", "LESS_THAN",
                                    "GREATER_THAN_OR_EQUAL", "LESS_THAN_OR_EQUAL"})
    => LET inRelation(stored, wanted) ==
             /\ stored.t = "number"
             /\ wanted.t = "number"
             /\ CASE call.filters[1].operator = "GREATER_THAN" -> stored.v > wanted.v
                  [] call.filters[1].operator = "LESS_THAN" -> stored.v < wanted.v
                  [] call.filters[1].operator = "GREATER_THAN_OR_EQUAL" -> stored.v >= wanted.v
                  [] call.filters[1].operator = "LESS_THAN_OR_EQUAL" -> stored.v <= wanted.v
       IN  {call.result.records[i] : i \in 1..Len(call.result.records)}
             = {JsonRoundTrip(input[i]) :
                  i \in {i \in 1..Len(input) :
                           inRelation(getNestedValue(input[i], call.filters[1].field),
                                      call.filters[1].value)}}

\* C24. For every index file, and every descriptor of metadata.indexes, the
\* coverage is the number of input records that hold the file's path (through
\* nested objects, and through object elements of arrays for a path segment
\* ending in []) divided by the number of records, hence at most 1.
C24_CoverageFraction ==
  built = "ok" =>
    LET RECURSIVE holds(_, _)
        holds(value, segments) ==
          IF segments = <<>> THEN TRUE
          ELSE IF EndsWith(Head(segments), <<"[", "]">>)
          THEN LET array == Prop(value, SubSeq(Head(segments), 1, Len(Head(segments)) - 2))
               IN  /\ value.t = "object"
                   /\ array.t = "array"
                   /\ \E e \in 1..Len(array.v) :
                        array.v[e].t = "object" /\ holds(array.v[e], Tail(segments))
          ELSE /\ value.t = "object"
               /\ HasOwn(value, Head(segments))
               /\ holds(Prop(value, Head(segments)), Tail(segments))
        observed(path) ==
          Cardinality({i \in 1..Len(input) : holds(input[i], Split(path, "."))})
        fraction(path, coverage) ==
          /\ coverage = <<observed(path), Len(input)>>
          /\ coverage[1] <= coverage[2]
    IN  /\ \A file \in (DOMAIN disk.indexes) \ {PrimaryIndexFile} :
             fraction(disk.indexes[file].field, disk.indexes[file].metadata.coverage)
        /\ \A d \in 1..Len(disk.metadata.indexes) :
             fraction(disk.metadata.indexes[d].field, disk.metadata.indexes[d].coverage)

\* C25. The type of every descriptor of metadata.indexes follows from the values
\* the input records hold at its path, in whatever order the records come:
\* 'primitive' when all are scalars, 'array' when one of them is an array,
\* 'nested' when all are objects, and then the path's index file has no entries.
C25_TypeClassification ==
  built = "ok" =>
    LET RECURSIVE valuesAt(_, _)
        valuesAt(value, segments) ==
          IF segments = <<>> THEN {value}
          ELSE IF value.t # "object" THEN {}
          ELSE IF EndsWith(Head(segments), <<"[", "]">>)
          THEN LET array == Prop(value, SubSeq(Head(segments), 1, Len(Head(segments)) - 2))
               IN  IF array.t # "array" THEN {}
                   ELSE UNION {valuesAt(array.v[e], Tail(segments)) : e \in 1..Len(array.v)}
          ELSE IF ~HasOwn(value, Head(segments)) THEN {}
          ELSE valuesAt(Prop(value, Head(segments)), Tail(segments))
        classified(path, type, kinds) ==
          /\ kinds \subseteq {"string", "number", "boolean", "null"} => type = "primitive"
          /\ "array" \in kinds => type = "array"
          /\ kinds = {"object"} =>
               /\ type = "nested"
               /\ \A file \in (DOMAIN disk.indexes) \ {PrimaryIndexFile} :
                    disk.indexes[file].field = path => disk.indexes[file].entries = <<>>
    IN  \A d \in 1..Len(disk.metadata.indexes) :
          classified(disk.metadata.indexes[d].field,
                     disk.metadata.indexes[d].type,
                     {v.t : v \in UNION {valuesAt(input[i],
                                                  Split(disk.metadata.indexes[d].field, ".")) :
                                           i \in 1..Len(input)}})

\* C26. When some record holds at items an array with an object element that
\* owns k, metadata.indexes describes the path items.k, and an EQUALS filter on
\* items.k returns exactly the records that hold the filter's value at k of
\* some element of items (or at k of items itself, where items is an object).
C26_ArrayElementPaths ==
  built = "ok" =>
    LET dotted == ItemsField \o <<".">> \o KField
        elements(i) ==
          IF Prop(input[i], ItemsField).t = "array"
          THEN {Prop(input[i], ItemsField).v[e] : e \in 1..Len(Prop(input[i], ItemsField).v)}
          ELSE {Prop(input[i], ItemsField)}
        holders(value) ==
          {i \in 1..Len(input) :
             \E element \in elements(i) :
               element.t = "object" /\ Prop(element, KField) = value}
    IN  /\ (\E i \in 1..Len(input) :
              /\ Prop(input[i], ItemsField).t = "array"
              /\ \E element \in elements(i) : element.t = "object" /\ HasOwn(element, KField))
            => \E d \in 1..Len(disk.metadata.indexes) : disk.metadata.indexes[d].field = dotted
        /\ (call.op = "executeQuery" /\ call.filters[1].field = dotted) =>
             /\ call.result.ok
             /\ {call.result.records[r] : r \in 1..Len(call.result.records)}
                  = {JsonRoundTrip(input[i]) : i \in holders(call.filters[1].value)}

\* C27. Individual mode over a valid collection of N records: the manifest
\* lists N files and the data directory holds N files, the file listed for
\* record i holds record i alone, and two records with different keys are never
\* written to one path.
C27_OneShardPerRecord ==
  LET n == Len(input)
      key(i) == IF Prop(input[i], options.primaryKeyField) = Undefined THEN Null
                ELSE Prop(input[i], options.primaryKeyField)
      valid == /\ n > 0
               /\ \A i \in 1..n : HasOwn(input[i], options.primaryKeyField)
               /\ \A i, j \in 1..n : key(i) = key(j) => i = j
      layout(files) ==
        /\ Len(files) = n
        /\ Cardinality(DOMAIN disk.data) = n
        /\ \A i \in 1..n :
             /\ files[i].filename \in DOMAIN disk.data
             /\ disk.data[files[i].filename] = JsonRoundTrip(input[i])
             /\ files[i].recordCount = 1
        /\ \A i, j \in 1..n : key(i) # key(j) => files[i].filename # files[j].filename
  IN  (built = "ok" /\ ~IsBatchMode(options) /\ valid) => layout(disk.split.files)

\* C28. After a successful build, every id of the Primary Index, and every id
\* listed in a field index, is in the recordIds of exactly one file of the
\* manifest, and the file listed for a Primary Index entry holds the input
\* record at the entry's position.
C28_IdAgreement ==
  built = "ok" =>
    LET files == disk.split.files
        listing(id) == {j \in 1..Len(files) :
                          \E k \in 1..Len(files[j].recordIds) : files[j].recordIds[k] = id}
        holds(j, record) ==
          /\ files[j].filename \in DOMAIN disk.data
          /\ IF IsBatchMode(options)
             THEN \E k \in 1..Len(disk.data[files[j].filename].v) :
                    disk.data[files[j].filename].v[k] = record
             ELSE disk.data[files[j].filename] = record
        primary == disk.indexes[PrimaryIndexFile].entries
    IN  /\ \A e \in 1..Len(primary) :
             /\ Cardinality(listing(primary[e].id)) = 1
             /\ \A j \in listing(primary[e].id) :
                  holds(j, JsonRoundTrip(input[primary[e].index + 1]))
        /\ \A file \in (DOMAIN disk.indexes) \ {PrimaryIndexFile} :
             \A v \in 1..Len(disk.indexes[file].entries) :
               \A r \in 1..Len(disk.indexes[file].entries[v].recordIds) :
                 Cardinality(listing(disk.indexes[file].entries[v].recordIds[r])) = 1

\* C29. After a successful build there are as many field index files as
\* descriptors in metadata.indexes, and for the path of every descriptor the
\* loader's loadIndex returns an index whose field is that path.
C29_IndexFilePerPath ==
  built = "ok" =>
    LET described == {disk.metadata.indexes[d].field : d \in 1..Len(disk.metadata.indexes)}
        opened(path, indexData) == Readable(indexData) /\ indexData.field = path
    IN  /\ Cardinality((DOMAIN disk.indexes) \ {PrimaryIndexFile}) = Cardinality(described)
        /\ \A path \in described : opened(path, LoaderLoadIndex(disk, path))

\* C30. A build that splitRecords rejects, for an empty collection, a record
\* without the key or a repeated key, leaves the output directory as it was:
\* no data file and no split-metadata.json is written.
C30_ValidationWritesNothing ==
  [][(built = "no" /\ built' = "failed")
       => /\ buildError'.kind \in {"NoRecords", "MissingKey", "DuplicateKey"}
          /\ disk' = disk
          /\ disk'.data = EmptyDir
          /\ disk'.split = NoFile]_vars

\* A build of two records was rejected for the key the second one repeats
C30_Witness ==
  /\ built = "failed"
  /\ buildError.kind = "DuplicateKey"
  /\ Len(input) = 2
  /\ HasOwn(input[1], options.primaryKeyField)
  /\ disk = EmptyDisk

====
